---- MODULE Spec2Model ----
(***************************************************************************)
(* SciMuse: the plan -> retrieve -> reason -> review orchestration of      *)
(* main.py / app.py, the structured-output handling of the three agents    *)
(* and the fallbacks each agent substitutes for malformed output.          *)
(*                                                                         *)
(* Texts (Python str) are sequences of tokens; the empty string is <<>>.   *)
(* A token is a TLA+ string.  Optional[str] is a sequence of length <= 1:  *)
(* <<>> is None, <<t>> is the text t.                                      *)
(***************************************************************************)
EXTENDS Integers, Sequences, FiniteSets, TLC

\* ------------------------------------------------------------------ bounds
\* longest run of fence / tag / whitespace tokens before and after the body
\* of a generation output that the stage specification enumerates
MaxPrefixLen == 3
MaxSuffixLen == 2

\* retry budget of the Reason/Review loop
max_retries == 2

\* ------------------------------------------------------------------ texts
None == <<>>
Some(t) == <<t>>

\* The one element of a singleton set.  Only({e(x) : x \in {v}}) is e(v) with v
\* evaluated once and named x, as a local variable of the Python function is
\* (TLC re-evaluates a LET definition at each use inside ENABLED).
Only(S) == CHOOSE x \in S : TRUE

\* Python truthiness of an Optional[str]: None and the empty string are falsy
Truthy(o) == Len(o) = 1 /\ Len(o[1]) > 0

\* the fenced-code marker (three backquotes) and its optional json tag
FENCE == "[fence]"
JSONTAG == "json"
WS == " "

StartsWith(t, p) == Len(t) >= Len(p) /\ SubSeq(t, 1, Len(p)) = p
EndsWith(t, p) == Len(t) >= Len(p) /\ SubSeq(t, Len(t) - Len(p) + 1, Len(t)) = p
DropFirst(t, n) == SubSeq(t, n + 1, Len(t))
DropLast(t, n) == SubSeq(t, 1, Len(t) - n)

RECURSIVE LStrip(_)
LStrip(t) == IF Len(t) > 0 /\ t[1] = WS THEN LStrip(Tail(t)) ELSE t

RECURSIVE RStrip(_)
RStrip(t) == IF Len(t) > 0 /\ t[Len(t)] = WS THEN RStrip(DropLast(t, 1)) ELSE t

\* str.strip()
Strip(t) == RStrip(LStrip(t))

\* _clean_json_output: strip, drop a leading fence tagged json, drop a leading
\* fence, drop a trailing fence, strip.  The two leading tests are independent
\* ifs; a, b, c, d are the successive values of raw_output.
CleanJsonOutput(raw_output) ==
    Only({ Only({ Only({ Only({ Strip(d)
        : d \in {IF EndsWith(c, <<FENCE>>) THEN DropLast(c, 1) ELSE c}})
        : c \in {IF StartsWith(b, <<FENCE>>) THEN DropFirst(b, 1) ELSE b}})
        : b \in {IF StartsWith(a, <<FENCE, JSONTAG>>) THEN DropFirst(a, 2) ELSE a}})
        : a \in {Strip(raw_output)}})

\* ------------------------------------------------------------------ JSON
\* A JSON value as the stages read it: t is its type, s the text of a string,
\* n a number (scores in tenths) or a boolean as 0/1, l the elements of an
\* array of strings.
JAbsent == [t |-> "absent", s |-> <<>>, n |-> 0, l |-> <<>>]
JNull == [t |-> "null", s |-> <<>>, n |-> 0, l |-> <<>>]
JObjVal == [t |-> "obj", s |-> <<>>, n |-> 0, l |-> <<>>]
JStr(s) == [t |-> "str", s |-> s, n |-> 0, l |-> <<>>]
JNum(n) == [t |-> "num", s |-> <<>>, n |-> n, l |-> <<>>]
JBool(b) == [t |-> "bool", s |-> <<>>, n |-> IF b THEN 1 ELSE 0, l |-> <<>>]
JArr(l) == [t |-> "arr", s |-> <<>>, n |-> 0, l |-> l]

Keys == {"reasoning", "search_queries", "need_visual_understanding",
         "reasoning_trace", "draft_answer", "citations",
         "confidence_score", "decision", "critique", "feedback_for_retriever",
         "description", "insights"}

\* a JSON document: kind is the type of the top-level value, f its members
\* when it is an object (absent keys map to JAbsent)
NonObject(kind) == [kind |-> kind, f |-> [k \in Keys |-> JAbsent]]
Object(members) ==
    [kind |-> "obj",
     f |-> [k \in Keys |-> IF k \in DOMAIN members THEN members[k] ELSE JAbsent]]

\* dict.get(key, default)
DataGet(data, key, default) ==
    IF data.f[key].t = "absent" THEN default ELSE data.f[key]

\* The documents the generation capability can emit, by token.  Every other
\* token (fence, tag, whitespace, free text) is not JSON.
JsonDoc(tok) ==
    CASE tok = "{}" -> Object(<<>>)
      [] tok = "[1]" -> NonObject("arr")
      [] tok = "'text'" -> NonObject("str")
      [] tok = "42" -> NonObject("num")
      [] tok = "null" -> NonObject("null")
      \* Plan Stage objects
      [] tok = "{plan: a, b; visual}" ->
            Object([reasoning |-> JStr(<<"r">>),
                    search_queries |-> JArr(<< <<"a">>, <<"b">> >>),
                    need_visual_understanding |-> JBool(TRUE)])
      [] tok = "{plan: a, a}" ->
            Object([reasoning |-> JStr(<<"r">>),
                    search_queries |-> JArr(<< <<"a">>, <<"a">> >>),
                    need_visual_understanding |-> JBool(FALSE)])
      [] tok = "{plan: search_queries []}" ->
            Object([reasoning |-> JStr(<<"r">>),
                    search_queries |-> JArr(<<>>),
                    need_visual_understanding |-> JBool(FALSE)])
      [] tok = "{plan: visual only}" ->
            Object([need_visual_understanding |-> JBool(TRUE)])
      [] tok = "{plan: search_queries null}" ->
            Object([reasoning |-> JStr(<<"r">>),
                    search_queries |-> JNull,
                    need_visual_understanding |-> JBool(TRUE)])
      [] tok = "{plan: search_queries 'a'}" ->
            Object([reasoning |-> JStr(<<"r">>),
                    search_queries |-> JStr(<<"a">>)])
      \* Reason Stage objects
      [] tok = "{draft: A1, cites}" ->
            Object([reasoning_trace |-> JStr(<<"t">>),
                    draft_answer |-> JStr(<<"A1">>),
                    citations |-> JArr(<< <<"Fig.1">> >>)])
      [] tok = "{draft: A2}" ->
            Object([draft_answer |-> JStr(<<"A2">>)])
      [] tok = "{draft: null}" ->
            Object([reasoning_trace |-> JStr(<<"t">>),
                    draft_answer |-> JNull,
                    citations |-> JArr(<<>>)])
      [] tok = "{draft: A1, citations {}}" ->
            Object([draft_answer |-> JStr(<<"A1">>), citations |-> JObjVal])
      \* Review Stage objects
      [] tok = "{ACCEPT 0.9}" ->
            Object([confidence_score |-> JNum(9),
                    decision |-> JStr(<<"ACCEPT">>),
                    critique |-> JStr(<<"ok">>),
                    feedback_for_retriever |-> JStr(<<>>)])
      [] tok = "{ACCEPT 0.0, search s2}" ->
            Object([confidence_score |-> JNum(0),
                    decision |-> JStr(<<"ACCEPT">>),
                    critique |-> JStr(<<"c2">>),
                    feedback_for_retriever |-> JStr(<<"s2">>)])
      [] tok = "{REJECT 0.2, search s1}" ->
            Object([confidence_score |-> JNum(2),
                    decision |-> JStr(<<"REJECT">>),
                    critique |-> JStr(<<"c1">>),
                    feedback_for_retriever |-> JStr(<<"s1">>)])
      [] tok = "{REJECT 1.5, critique null}" ->
            Object([confidence_score |-> JNum(15),
                    decision |-> JStr(<<"REJECT">>),
                    critique |-> JNull])
      [] tok = "{REJECT true, critique ''}" ->
            Object([confidence_score |-> JBool(TRUE),
                    decision |-> JStr(<<"REJECT">>),
                    critique |-> JStr(<<>>),
                    feedback_for_retriever |-> JStr(<<>>)])
      [] tok = "{score 0.9}" ->
            Object([confidence_score |-> JNum(9)])
      [] tok = "{accept 0.9}" ->
            Object([confidence_score |-> JNum(9),
                    decision |-> JStr(<<"accept">>)])
      [] tok = "{vl: d, i}" ->
            Object([description |-> JStr(<<"d">>), insights |-> JStr(<<"i">>)])
      [] tok = "{vl: description null}" ->
            Object([description |-> JNull, insights |-> JStr(<<"i">>)])
      [] tok = "{ACCEPT '0.9'}" ->
            Object([confidence_score |-> JStr(<<"0.9">>),
                    decision |-> JStr(<<"ACCEPT">>)])
      [] tok = "{ACCEPT 'high'}" ->
            Object([confidence_score |-> JStr(<<"high">>),
                    decision |-> JStr(<<"ACCEPT">>)])
      [] tok = "{ACCEPT, score null}" ->
            Object([confidence_score |-> JNull,
                    decision |-> JStr(<<"ACCEPT">>)])
      [] tok = "{ACCEPT 0.9, critique {}}" ->
            Object([confidence_score |-> JNum(9),
                    decision |-> JStr(<<"ACCEPT">>),
                    critique |-> JObjVal])
      [] OTHER -> NonObject("garbage")

\* json.loads succeeds on a text that is one JSON document (surrounding
\* whitespace was stripped before); anything else is a JSONDecodeError
IsJson(text) == Len(text) = 1 /\ JsonDoc(text[1]).kind # "garbage"
JsonLoads(text) == JsonDoc(text[1])

\* pydantic field validation (values the declared type admits without coercion)
ValidStr(v) == v.t = "str"
ValidListStr(v) == v.t = "arr"
ValidBool(v) == v.t = "bool"
ValidOptStr(v) == v.t \in {"str", "null"}
OptOf(v) == IF v.t = "str" THEN Some(v.s) ELSE None

\* a call of the generation capability: text returned, or an error raised
GenOk(content) == [ok |-> TRUE, content |-> content, err |-> "none"]
GenFail(err) == [ok |-> FALSE, content |-> <<>>, err |-> err]

\* ------------------------------------------------------------------ Plan Stage
\* mutant: the degraded Plan without the fallback query
PlanParseFailedNoQuery(user_query) ==
    [reasoning |-> <<"JSON parsing failed, using original query.">>,
     search_queries |-> <<>>,
     need_visual_understanding |-> FALSE]

PlanParseFailed(user_query) ==
    [reasoning |-> <<"JSON parsing failed, using original query.">>,
     search_queries |-> <<user_query>>,
     need_visual_understanding |-> FALSE]

PlanSystemError(user_query, err) ==
    [reasoning |-> <<"System error: ", err>>,
     search_queries |-> <<user_query>>,
     need_visual_understanding |-> FALSE]

\* data.get("search_queries", [user_query])
PlanQueriesOf(data, user_query) ==
    DataGet(data, "search_queries", JArr(<<user_query>>))

\* PlannerOutput(...) built from the decoded object; a value of the wrong
\* type raises ValidationError, which the outer handler absorbs
PlanFromData(data, user_query) ==
    LET r == DataGet(data, "reasoning", JStr(<<"No reasoning provided.">>))
        q == PlanQueriesOf(data, user_query)
        v == DataGet(data, "need_visual_understanding", JBool(FALSE))
    IN  IF ValidStr(r) /\ ValidListStr(q) /\ ValidBool(v)
        THEN [reasoning |-> r.s,
              search_queries |-> q.l,
              need_visual_understanding |-> (v.n = 1)]
        ELSE PlanSystemError(user_query, "ValidationError")

\* PlannerAgent.plan
PlannerPlan(user_query, g) ==
    IF ~g.ok THEN PlanSystemError(user_query, g.err)
    ELSE Only({
         IF ~IsJson(cleaned_json) THEN PlanParseFailed(user_query)
         ELSE Only({
              IF data.kind # "obj"
              THEN PlanSystemError(user_query, "AttributeError")
              ELSE PlanFromData(data, user_query)
              : data \in {JsonLoads(cleaned_json)}})
         : cleaned_json \in {CleanJsonOutput(g.content)}})

\* ------------------------------------------------------------------ Reason Stage
ReasonParseFailed(content) ==
    [reasoning_trace |-> <<"JSON Parse Error">>,
     draft_answer |-> content,
     citations |-> <<>>]

ReasonSystemError(err) ==
    [reasoning_trace |-> <<"System Error">>,
     draft_answer |-> <<"An error occurred while generating the answer: ", err>>,
     citations |-> <<>>]

ReasonFromData(data) ==
    LET t == DataGet(data, "reasoning_trace", JStr(<<"No trace provided.">>))
        a == DataGet(data, "draft_answer", JStr(<<"No answer provided.">>))
        c == DataGet(data, "citations", JArr(<<>>))
    IN  IF ValidStr(t) /\ ValidStr(a) /\ ValidListStr(c)
        THEN [reasoning_trace |-> t.s, draft_answer |-> a.s, citations |-> c.l]
        ELSE ReasonSystemError("ValidationError")

\* what the handler of a decoded value that is no object does: data.get
\* raises AttributeError, which only the outer handler catches
ReasonNotAnObject(content) == ReasonSystemError("AttributeError")

\* ReasonerAgent.run (query and evidence only feed the prompt)
ReasonerRun(query, retriever_result, g) ==
    IF ~g.ok THEN ReasonSystemError(g.err)
    ELSE Only({
         IF ~IsJson(cleaned_json) THEN ReasonParseFailed(g.content)
         ELSE Only({
              IF data.kind # "obj"
              THEN ReasonNotAnObject(g.content)
              ELSE ReasonFromData(data)
              : data \in {JsonLoads(cleaned_json)}})
         : cleaned_json \in {CleanJsonOutput(g.content)}})

\* ------------------------------------------------------------------ Review Stage
\* mutants of the fallback verdict: no supplemental query; the decision left
\* as the error class instead of a member of the enumeration
ReviewFallbackNoSearch(err) ==
    [confidence_score |-> 0,
     decision |-> "REJECT",
     critique |-> Some(<<"System error during review: ", err>>),
     feedback_for_retriever |-> None]
ReviewFallbackBadDecision(err) ==
    [confidence_score |-> 0,
     decision |-> err,
     critique |-> Some(<<"System error during review: ", err>>),
     feedback_for_retriever |-> Some(<<"System error, please retry aggregation.">>)]

ReviewFallback(err) ==
    [confidence_score |-> 0,
     decision |-> "REJECT",
     critique |-> Some(<<"System error during review: ", err>>),
     feedback_for_retriever |-> Some(<<"System error, please retry aggregation.">>)]

\* float(x): numbers and booleans convert, None and containers raise
\* float(x): numbers, booleans and strings that spell a number convert
NumericTexts == {<<"0.9">>}
FloatOk(v) == v.t \in {"num", "bool"} \/ (v.t = "str" /\ v.s \in NumericTexts)
FloatOf(v) ==
    CASE v.t = "num" -> v.n
      [] v.t = "bool" -> 10 * v.n
      [] OTHER -> 9

\* mutant: any string taken as a decision
DecisionOkAnyString(v) == v.t = "str"

\* AgentDecision(x): only the two member values construct
DecisionOk(v) == v.t = "str" /\ v.s \in {<<"ACCEPT">>, <<"REJECT">>}

ReviewFromData(data) ==
    LET s == DataGet(data, "confidence_score", JNum(0))
        d == DataGet(data, "decision", JStr(<<"REJECT">>))
        c == DataGet(data, "critique", JStr(<<"No critique provided.">>))
        f == DataGet(data, "feedback_for_retriever", JNull)
    IN  IF ~FloatOk(s) THEN ReviewFallback("TypeError")
        ELSE IF ~DecisionOk(d) THEN ReviewFallback("ValueError")
        ELSE IF ~(ValidOptStr(c) /\ ValidOptStr(f))
             THEN ReviewFallback("ValidationError")
        ELSE [confidence_score |-> FloatOf(s),
              decision |-> d.s[1],
              critique |-> OptOf(c),
              feedback_for_retriever |-> OptOf(f)]

\* ReviewerAgent.review: one handler around the call, the decode and the
\* construction of the verdict
ReviewerReview(query, reasoner_output, g) ==
    IF ~g.ok THEN ReviewFallback(g.err)
    ELSE Only({
         IF ~IsJson(cleaned_json) THEN ReviewFallback("JSONDecodeError")
         ELSE Only({
              IF data.kind # "obj" THEN ReviewFallback("AttributeError")
              ELSE ReviewFromData(data)
              : data \in {JsonLoads(cleaned_json)}})
         : cleaned_json \in {CleanJsonOutput(g.content)}})

\* ------------------------------------------------------------------ Retrieval
\* RetrieverAgent.run: the agent's answer, or the failure as text
\* what a stage call leaves behind when the exception of the capability is
\* not handled inside it: the exception reaches the caller
Uncaught == <<"[uncaught exception]">>

\* mutants: the call without its handler; the handler returning no text
RetrieverRunNoHandler(query, o) == IF o.ok THEN o.content ELSE Uncaught
RetrieverRunSwallow(query, o) == IF o.ok THEN o.content ELSE <<>>

RetrieverRun(query, o) ==
    IF o.ok THEN o.content ELSE <<"Retriever failed: ", o.err>>

\* ------------------------------------------------------------------ Orchestrator
\* aggregated_context += f"\n--- Search Result for '{query}' ---\n{result}\n"
\* mutant: the segment of a planned query without the query in its heading
SearchSegmentUnlabelled(query, result) ==
    <<"\n--- Search Result ---\n">> \o result \o <<"\n">>

SearchSegment(query, result) ==
    <<"\n--- Search Result for '">> \o query \o <<"' ---\n">> \o result \o <<"\n">>

\* the heading of a supplemental segment (main.py / app.py)
SupplementalHeading(u) ==
    IF u = "cli" THEN "\n--- Supplemental Evidence ---\n" ELSE "\n--- Supplemental ---\n"

SupplementalSegment(u, new_evidence) ==
    <<SupplementalHeading(u)>> \o new_evidence \o <<"\n">>

AppendInitial(context, query, result) == context \o SearchSegment(query, result)

\* mutants: the supplemental evidence substituted for, or put before, the
\* evidence gathered so far
AppendSupplementalSubstitute(u, context, new_evidence) ==
    SupplementalSegment(u, new_evidence)
AppendSupplementalPrepend(u, context, new_evidence) ==
    SupplementalSegment(u, new_evidence) \o context

AppendSupplemental(u, context, new_evidence) ==
    context \o SupplementalSegment(u, new_evidence)

\* mutant: the feedback never reaches the Reason Stage
EffectiveQueryBare(u, query, fb) == query

\* effective_query: the query, with the feedback appended when there is one
EffectiveQuery(u, query, fb) ==
    IF ~Truthy(fb) THEN query
    ELSE IF u = "cli"
         THEN query \o <<"\n\n(PREVIOUS FEEDBACK: ">> \o fb[1]
                    \o <<". Please improve the answer.)">>
         ELSE query \o <<"\n(Critique from previous turn: ">> \o fb[1] \o <<")">>

\* mutants of the loop condition: one round too many, one round too few
LoopCondExtraRound(attempt) == attempt <= max_retries + 1
LoopCondStrict(attempt) == attempt < max_retries

\* while current_attempt <= max_retries
LoopCond(attempt) == attempt <= max_retries
LoopPc(attempt) == IF LoopCond(attempt) THEN "reasoning" ELSE "final"

\* mutant: acceptance decided by the score threshold instead of the decision
ReviewBranchByScore(v) ==
    IF v.confidence_score >= 8 THEN "accept"
    ELSE IF Truthy(v.feedback_for_retriever) THEN "supplemental"
    ELSE "retry"

\* mutant: an ACCEPT counts only with a confidence of 0.8 or more
ReviewBranchConfident(v) ==
    IF v.decision = "ACCEPT" /\ v.confidence_score >= 8 THEN "accept"
    ELSE IF Truthy(v.feedback_for_retriever) THEN "supplemental"
    ELSE "retry"

\* mutant: the supplemental search tested before the decision
ReviewBranchSearchFirst(v) ==
    IF Truthy(v.feedback_for_retriever) THEN "supplemental"
    ELSE IF v.decision = "ACCEPT" THEN "accept"
    ELSE "retry"

\* the branch taken after a verdict: ACCEPT breaks out of the loop; any other
\* verdict records the critique and runs a supplemental search when the
\* verdict carries a non-empty feedback_for_retriever
ReviewBranch(v) ==
    IF v.decision = "ACCEPT" THEN "accept"
    ELSE IF Truthy(v.feedback_for_retriever) THEN "supplemental"
    ELSE "retry"

\* mutant: each distinct planned query searched once
RECURSIVE Distinct(_)
Distinct(queries) ==
    IF Len(queries) = 0 THEN <<>>
    ELSE LET r == Distinct(SubSeq(queries, 1, Len(queries) - 1)) IN
         IF \E i \in DOMAIN r : r[i] = queries[Len(queries)] THEN r
         ELSE Append(r, queries[Len(queries)])
PlannedQueriesDistinct(p) == Distinct(p.search_queries)

\* the queries the initial retrieval loop iterates over
PlannedQueries(p) == p.search_queries

\* mutant: the retry loop entered after the first planned search
RetrievalLoopPcEarly(i, queries) == LoopPc(0)

\* where the session goes after the search for planned query i
RetrievalLoopPc(i, queries) == IF i = Len(queries) THEN LoopPc(0) ELSE "retrieving"

\* mutant: the Review Stage given the query the Reason Stage was given
ReviewQueryEffective(u, query, fb) == EffectiveQuery(u, query, fb)

\* the query handed to reviewer.review
ReviewQuery(u, query, fb) == query

\* the draft printed by the final-output step
ShownDraft(final, last_draft) == IF final # None THEN final[1] ELSE last_draft[1]

\* ------------------------------------------------------------------ state
VARIABLES
    ui,                 \* "cli" (run_chat_pipeline) or "gui" (chat_pipeline)
    user_query,         \* the user's question
    pc,                 \* position of the session in the pipeline
    plan,               \* None or the PlannerOutput
    qidx,               \* index of the next planned query to search
    aggregated_context, \* the evidence text
    current_attempt,
    feedback,           \* "" at first, then the critique of the last REJECT
    final_answer,       \* None or the accepted draft
    draft_output,       \* None or the draft of the latest Reason call
    review,             \* None or the verdict of the latest Review call
    calls,              \* history: the stage calls made, with their arguments
    attempts,           \* history: [index, draft, verdict] per Reason/Review round
    lookups,            \* history: [kind, query, outcome, result] per retriever.run
    shown,              \* None or what the final-output step reports
    st_stage,           \* stage specification: the stage under test
    st_query,           \* stage specification: the query given to the stage
    st_gen,             \* stage specification: the generation outcome
    st_out              \* stage specification: None or the record returned

\* the evidence lookup (tools/agent_tools.py)
VARIABLES
    rt_pc,              \* "off", "idle", "returned" or "raised"
    rt_cfg,             \* cfg of the module: TRUE when config.yaml was loaded
    vector_store,       \* the global _vector_store: "none" or "ready"
    rt_query,           \* the query of the latest call
    rt_results,         \* None or the raw_results of the latest search
    rt_out,             \* None or the value returned by the latest call
    rt_calls            \* number of calls made

\* the commands (main.py main, app.py module setup)
VARIABLES
    cm_pc,              \* position of the process
    cm_entry,           \* "off", "cli" (main.py) or "gui" (app.py)
    cm_mode,            \* "ingest" or "chat" (cli), "serve" (gui)
    cm_config,          \* TRUE when config.yaml exists
    cm_arg,             \* the PDF path or the chat query
    cm_exit,            \* None or the exit status of the process
    cm_error,           \* None or the exception that ended the process
    cm_agents,          \* the agents constructed so far
    cm_parsed,          \* None or [text_chunks, figure_data] sizes of the parse
    cm_store,           \* None or the outcome of the vector-store step
    cm_writes,          \* number of add_documents calls
    cm_log              \* messages printed

\* the image analysis (agents/vl_agent.py)
VARIABLES
    vl_pc,              \* "off", "idle", "loop", "returned" or "raised"
    vl_cfg,             \* config.yaml as the agent loaded it: "none", "no vl", "full"
    vl_image,           \* the file at image_path: "missing", "unreadable", "ok"
    attempt,            \* the loop variable of analyze_image
    vl_calls,           \* history: the outcomes of the model calls made
    vl_out              \* None or the VLOutput returned

\* two sessions side by side (main.py run_chat_pipeline, app.py chat_pipeline)
VARIABLES
    sessions            \* <<>> or the local state of each of the two sessions

\* get_vector_store called from several threads (tools/agent_tools.py)
VARIABLES
    gs_pc,              \* per thread: "off", "idle", "test", "construct", "return"
    gs_cfg,             \* cfg of the module: TRUE when config.yaml was loaded
    gs_store,           \* the global _vector_store: 0 for None, else an instance
    gs_made,            \* number of VectorStoreManager instances constructed
    gs_new,             \* per thread: the instance its constructor call returned
    gs_ret              \* history: [thread, value] per completed call

\* PDFParser._poll_batch_task (tools/pdf_parser.py)
VARIABLES
    pl_pc,              \* "off", "check", "request", "returned" or "raised"
    pl_timeout,         \* config.api.timeout, in seconds
    pl_elapsed,         \* time.time() - start_time, in seconds
    pl_resp,            \* the latest response
    pl_error,           \* None or the exception that left the function
    pl_out,             \* None or the task returned
    pl_polls            \* number of requests made

\* VectorStoreManager.add_documents (tools/vector_db.py)
VARIABLES
    ad_pc,              \* "off", "chunks", "figures", "embed", "write", "returned", "raised"
    ad_chunks,          \* text_chunks: [id, len] per chunk
    ad_figures,         \* figure_data: [id, exists] per figure
    ad_fidx,            \* index of the next figure
    ad_items,           \* evidence_items: the ids collected so far
    ad_embeddings,      \* None or the number of embeddings generated
    ad_embed_calls,     \* number of generate_embeddings calls
    ad_vl_calls,        \* ids of the figures sent to the VL model
    ad_writes           \* history: the ids of each collection.upsert

\* generate_embeddings in ModelScope mode (tools/vector_db.py)
VARIABLES
    ge_pc,              \* "off", "next", "loop", "returned" or "raised"
    ge_texts,           \* the input texts
    ge_i,               \* index of the text being embedded
    success,
    retry_count,
    all_embeddings,     \* the embeddings appended so far
    ge_calls,           \* history: [text, outcome] per embeddings.create call
    ge_out              \* None or the list returned

ovars == <<ui, user_query, pc, plan, qidx, aggregated_context, current_attempt,
           feedback, final_answer, draft_output, review, calls, attempts, lookups,
           shown>>
svars == <<st_stage, st_query, st_gen, st_out>>
tvars == <<rt_pc, rt_cfg, vector_store, rt_query, rt_results, rt_out, rt_calls>>
mvars == <<cm_pc, cm_entry, cm_mode, cm_config, cm_arg, cm_exit, cm_error,
           cm_agents, cm_parsed, cm_store, cm_writes, cm_log>>
vvars == <<vl_pc, vl_cfg, vl_image, attempt, vl_calls, vl_out>>
nvars == <<sessions>>
gvars == <<gs_pc, gs_cfg, gs_store, gs_made, gs_new, gs_ret>>
pvars == <<pl_pc, pl_timeout, pl_elapsed, pl_resp, pl_error, pl_out, pl_polls>>
dvars == <<ad_pc, ad_chunks, ad_figures, ad_fidx, ad_items, ad_embeddings,
           ad_embed_calls, ad_vl_calls, ad_writes>>
evars == <<ge_pc, ge_texts, ge_i, success, retry_count, all_embeddings, ge_calls,
           ge_out>>
xvars == <<nvars, gvars, pvars, dvars, evars>>
basevars == <<ovars, svars, tvars, mvars, vvars>>
cvars == <<tvars, mvars, vvars, xvars>>
vars == <<ovars, svars, cvars>>

\* ------------------------------------------------------------------ inputs
UserQueries == {<<>>, <<"Q">>}

\* outcomes of the external capabilities within a session
PlanGens ==
    {GenOk(<<FENCE, JSONTAG, "{plan: a, b; visual}", FENCE>>),
     GenOk(<<"{plan: a, a}">>),
     GenOk(<<"{plan: search_queries []}">>),
     GenOk(<<"not json">>),
     GenFail("timeout")}

ReasonGens ==
    {GenOk(<<"{draft: A1, cites}">>),
     GenOk(<<"free text">>)}

ReviewGens ==
    {GenOk(<<"{ACCEPT 0.0, search s2}">>),
     GenOk(<<FENCE, "{REJECT 0.2, search s1}", FENCE>>),
     GenOk(<<"{REJECT 1.5, critique null}">>),
     GenOk(<<"not json">>)}

RetrieverOutcomes == {GenOk(<<"E">>), GenFail("timeout")}

Call(stage, arg, ev, draft) == [stage |-> stage, arg |-> arg, ev |-> ev, draft |-> draft]

\* ------------------------------------------------------------------ session
OrchIdle ==
    /\ ui = "cli" /\ user_query = <<>> /\ pc = "off" /\ plan = None /\ qidx = 1
    /\ aggregated_context = <<>> /\ current_attempt = 0 /\ feedback = Some(<<>>)
    /\ final_answer = None /\ draft_output = None /\ review = None
    /\ calls = <<>> /\ attempts = <<>> /\ lookups = <<>> /\ shown = None

StageIdle ==
    /\ st_stage = "off" /\ st_query = <<>> /\ st_gen = GenFail("none") /\ st_out = None

ToolIdle ==
    /\ rt_pc = "off" /\ rt_cfg = FALSE /\ vector_store = "none" /\ rt_query = <<>>
    /\ rt_results = None /\ rt_out = None /\ rt_calls = 0

CommandIdle ==
    /\ cm_pc = "off" /\ cm_entry = "off" /\ cm_mode = "chat" /\ cm_config = FALSE
    /\ cm_arg = <<>> /\ cm_exit = None /\ cm_error = None /\ cm_agents = <<>>
    /\ cm_parsed = None /\ cm_store = None /\ cm_writes = 0 /\ cm_log = <<>>

VLIdle ==
    /\ vl_pc = "off" /\ vl_cfg = "none" /\ vl_image = "missing" /\ attempt = 0
    /\ vl_calls = <<>> /\ vl_out = None

SessionsIdle == sessions = <<>>

GetIdle ==
    /\ gs_pc = <<>> /\ gs_cfg = FALSE /\ gs_store = 0 /\ gs_made = 0
    /\ gs_new = <<>> /\ gs_ret = <<>>

PollIdle ==
    /\ pl_pc = "off" /\ pl_timeout = 0 /\ pl_elapsed = 0 /\ pl_resp = None
    /\ pl_error = None /\ pl_out = None /\ pl_polls = 0

AddIdle ==
    /\ ad_pc = "off" /\ ad_chunks = <<>> /\ ad_figures = <<>> /\ ad_fidx = 1
    /\ ad_items = <<>> /\ ad_embeddings = None /\ ad_embed_calls = 0
    /\ ad_vl_calls = <<>> /\ ad_writes = <<>>

EmbedIdle ==
    /\ ge_pc = "off" /\ ge_texts = <<>> /\ ge_i = 1 /\ success = FALSE
    /\ retry_count = 0 /\ all_embeddings = <<>> /\ ge_calls = <<>> /\ ge_out = None

XIdle == SessionsIdle /\ GetIdle /\ PollIdle /\ AddIdle /\ EmbedIdle

CompIdle == ToolIdle /\ CommandIdle /\ VLIdle /\ XIdle

Init ==
    /\ ui \in {"cli", "gui"}
    /\ user_query \in UserQueries
    /\ pc = "start"
    /\ plan = None
    /\ qidx = 1
    /\ aggregated_context = <<>>
    /\ current_attempt = 0
    /\ feedback = Some(<<>>)
    /\ final_answer = None
    /\ draft_output = None
    /\ review = None
    /\ calls = <<>>
    /\ attempts = <<>>
    /\ lookups = <<>>
    /\ shown = None
    /\ StageIdle
    /\ CompIdle

\* entry of the pipeline; chat_pipeline answers an empty message at once
Start ==
    /\ pc = "start"
    /\ pc' = IF ui = "gui" /\ Len(user_query) = 0 THEN "noinput" ELSE "planning"
    /\ UNCHANGED <<ui, user_query, plan, qidx, aggregated_context, current_attempt,
                   feedback, final_answer, draft_output, review, calls, attempts,
                   lookups, shown, svars, cvars>>

\* plan = planner.plan(user_query); aggregated_context = ""
Plan ==
    /\ pc = "planning"
    /\ \E g \in PlanGens : \E p \in {PlannerPlan(user_query, g)} :
          /\ plan' = Some(p)
          /\ pc' = IF Len(PlannedQueries(p)) = 0 THEN LoopPc(0) ELSE "retrieving"
    /\ qidx' = 1
    /\ aggregated_context' = <<>>
    /\ calls' = Append(calls, Call("plan", user_query, <<>>, None))
    /\ UNCHANGED <<ui, user_query, current_attempt, feedback, final_answer,
                   draft_output, review, attempts, lookups, shown, svars, cvars>>

\* one iteration of: for query in plan.search_queries
Retrieve ==
    /\ pc = "retrieving"
    /\ LET query == PlannedQueries(plan[1])[qidx] IN
       \E o \in RetrieverOutcomes : \E result \in {RetrieverRun(query, o)} :
          /\ calls' = Append(calls, Call("retrieve", query, <<>>, None))
          /\ lookups' = Append(lookups, [kind |-> "initial", query |-> query,
                                         outcome |-> o, result |-> result])
          /\ IF result = Uncaught
             THEN /\ pc' = "crashed"
                  /\ UNCHANGED <<aggregated_context, qidx>>
             ELSE /\ aggregated_context' =
                         AppendInitial(aggregated_context, query, result)
                  /\ qidx' = qidx + 1
                  /\ pc' = RetrievalLoopPc(qidx, PlannedQueries(plan[1]))
    /\ UNCHANGED <<ui, user_query, plan, current_attempt, feedback, final_answer,
                   draft_output, review, attempts, shown, svars, cvars>>

\* draft_output = reasoner.run(effective_query, aggregated_context, [])
Reason ==
    /\ pc = "reasoning"
    /\ LET effective_query == EffectiveQuery(ui, user_query, feedback) IN
       /\ \E g \in ReasonGens :
             draft_output' = Some(ReasonerRun(effective_query, aggregated_context, g))
       /\ calls' = Append(calls, Call("reason", effective_query, aggregated_context, None))
    /\ pc' = "reviewing"
    /\ UNCHANGED <<ui, user_query, plan, qidx, aggregated_context, current_attempt,
                   feedback, final_answer, review, attempts, lookups, shown, svars, cvars>>

\* review = reviewer.review(user_query, draft_output) and the branch on it
Review ==
    /\ pc = "reviewing"
    /\ \E g \in ReviewGens :
       \E v \in {ReviewerReview(ReviewQuery(ui, user_query, feedback),
                                draft_output[1], g)} :
          LET b == ReviewBranch(v)
          IN  /\ review' = Some(v)
              /\ attempts' = Append(attempts, [index |-> current_attempt,
                                               draft |-> draft_output[1],
                                               verdict |-> v])
              /\ final_answer' = IF b = "accept" THEN draft_output ELSE final_answer
              /\ feedback' = IF b = "accept" THEN feedback ELSE v.critique
              /\ current_attempt' =
                     IF b = "retry" THEN current_attempt + 1 ELSE current_attempt
              /\ pc' = CASE b = "accept" -> "final"
                         [] b = "supplemental" -> "supplemental"
                         [] OTHER -> LoopPc(current_attempt + 1)
    /\ calls' = Append(calls, Call("review", ReviewQuery(ui, user_query, feedback),
                                   <<>>, draft_output))
    /\ UNCHANGED <<ui, user_query, plan, qidx, aggregated_context, draft_output,
                   lookups, shown, svars, cvars>>

\* new_evidence = retriever.run(review.feedback_for_retriever); current_attempt += 1
Supplemental ==
    /\ pc = "supplemental"
    /\ LET query == review[1].feedback_for_retriever[1] IN
       \E o \in RetrieverOutcomes : \E new_evidence \in {RetrieverRun(query, o)} :
          /\ calls' = Append(calls, Call("supplemental", query, <<>>, None))
          /\ lookups' = Append(lookups, [kind |-> "supplemental", query |-> query,
                                         outcome |-> o, result |-> new_evidence])
          /\ IF new_evidence = Uncaught
             THEN /\ pc' = "crashed"
                  /\ UNCHANGED <<aggregated_context, current_attempt>>
             ELSE /\ aggregated_context' =
                         AppendSupplemental(ui, aggregated_context, new_evidence)
                  /\ current_attempt' = current_attempt + 1
                  /\ pc' = LoopPc(current_attempt + 1)
    /\ UNCHANGED <<ui, user_query, plan, qidx, feedback, final_answer, draft_output,
                   review, attempts, shown, svars, cvars>>

\* the final-output step: the accepted answer, or the last draft
FinalOutput ==
    /\ pc = "final"
    /\ shown' = Some([accepted |-> final_answer # None,
                      draft |-> ShownDraft(final_answer, draft_output)])
    /\ pc' = "done"
    /\ UNCHANGED <<ui, user_query, plan, qidx, aggregated_context, current_attempt,
                   feedback, final_answer, draft_output, review, calls, attempts,
                   lookups, svars, cvars>>

Next == Start \/ Plan \/ Retrieve \/ Reason \/ Review \/ Supplemental \/ FinalOutput

Spec == Init /\ [][Next]_vars

\* every stage call returns (section 5: calls block, each returns or raises)
FairSpec == Spec /\ WF_vars(Next)

\* ------------------------------------------------------------------ one stage call
\* Generation outputs given to a stage on its own: a body (nothing, free
\* text, or one JSON document) between a prefix and a suffix of fence, tag
\* and whitespace tokens; or a failed generation call.
SeqsUpTo(S, n) == UNION {[1..k -> S] : k \in 0..n}

CommonBodies == {<<>>, <<"not json">>, <<"[1]">>, <<"'text'">>, <<"null">>, <<"{}">>}

StageBodies(stage) ==
    CommonBodies \cup
    CASE stage = "plan" ->
            {<<"{plan: a, b; visual}">>, <<"{plan: a, a}">>,
             <<"{plan: search_queries []}">>, <<"{plan: visual only}">>,
             <<"{plan: search_queries null}">>, <<"{plan: search_queries 'a'}">>}
      [] stage = "reason" ->
            {<<"{draft: A1, cites}">>, <<"{draft: A2}">>, <<"{draft: null}">>,
             <<"{draft: A1, citations {}}">>}
      [] OTHER ->
            {<<"{ACCEPT 0.9}">>, <<"{ACCEPT 0.0, search s2}">>,
             <<"{REJECT 0.2, search s1}">>, <<"{REJECT 1.5, critique null}">>,
             <<"{REJECT true, critique ''}">>, <<"{score 0.9}">>, <<"{accept 0.9}">>,
             <<"{ACCEPT, score null}">>, <<"{ACCEPT 0.9, critique {}}">>,
             <<"{ACCEPT '0.9'}">>, <<"{ACCEPT 'high'}">>}

StageGens(stage) ==
    {GenFail("timeout")} \cup
    {GenOk(pre \o body \o suf) :
        pre \in SeqsUpTo({FENCE, JSONTAG, WS}, MaxPrefixLen),
        body \in StageBodies(stage),
        suf \in SeqsUpTo({FENCE, WS}, MaxSuffixLen)}

\* a draft handed to the Review Stage on its own
SomeDraft == [reasoning_trace |-> <<"t">>, draft_answer |-> <<"A1">>, citations |-> <<>>]

StageInit ==
    /\ st_stage \in {"plan", "reason", "review"}
    /\ st_query \in UserQueries
    /\ st_gen \in StageGens(st_stage)
    /\ st_out = None
    /\ OrchIdle
    /\ CompIdle

PlanCall ==
    /\ st_stage = "plan" /\ st_out = None
    /\ st_out' = Some(PlannerPlan(st_query, st_gen))
    /\ UNCHANGED <<st_stage, st_query, st_gen, ovars, cvars>>

ReasonCall ==
    /\ st_stage = "reason" /\ st_out = None
    /\ st_out' = Some(ReasonerRun(st_query, <<>>, st_gen))
    /\ UNCHANGED <<st_stage, st_query, st_gen, ovars, cvars>>

ReviewCall ==
    /\ st_stage = "review" /\ st_out = None
    /\ st_out' = Some(ReviewerReview(st_query, SomeDraft, st_gen))
    /\ UNCHANGED <<st_stage, st_query, st_gen, ovars, cvars>>

StageNext == PlanCall \/ ReasonCall \/ ReviewCall

StageSpec == StageInit /\ [][StageNext]_vars

\* ------------------------------------------------------- evidence lookup
MaxHits == 2
MaxToolCalls == 2
PreviewLimit == 400

\* items as VectorStoreManager.search returns them; type is the "type" entry
\* of the metadata, None when the metadata has none
Hits ==
    {[id |-> "c1", type |-> Some("text"), content |-> "chunk", len |-> 120, page |-> None],
     [id |-> "c2", type |-> Some("text"), content |-> "long chunk", len |-> 401, page |-> None],
     [id |-> "c3", type |-> None, content |-> "untyped chunk", len |-> 400, page |-> None],
     [id |-> "f1", type |-> Some("image"), content |-> "caption", len |-> 30, page |-> Some("3")],
     [id |-> "t1", type |-> Some("table"), content |-> "table", len |-> 50, page |-> None]}

ToolQueries == {<<"a">>, <<"s1">>}
BuildOutcomes == {"ok", "raise"}
SearchOutcomes ==
    {[ok |-> FALSE, hits |-> <<>>, err |-> "embedding failed"]} \cup
    {[ok |-> TRUE, hits |-> h, err |-> "none"] : h \in SeqsUpTo(Hits, MaxHits)}

\* item.metadata.get("type", "text")
ItemType(item) == IF item.type = None THEN "text" ELSE item.type[1]

\* the content cut to 400 characters, with a truncation mark
ContentPreview(item) ==
    IF item.len > PreviewLimit THEN <<item.content, "[:400]", "...(truncated)">>
    ELSE <<item.content>>

TextEvidence(raw_results) == SelectSeq(raw_results, LAMBDA item : ItemType(item) = "text")
ImageEvidence(raw_results) == SelectSeq(raw_results, LAMBDA item : ItemType(item) = "image")

RECURSIVE JoinLines(_)
JoinLines(lines) ==
    IF Len(lines) = 0 THEN <<>>
    ELSE IF Len(lines) = 1 THEN lines[1]
    ELSE lines[1] \o <<"\n">> \o JoinLines(Tail(lines))

OutputLines(query, text_evidence, image_evidence) ==
    << <<"### Search Results for '">> \o query \o <<"'\n">> >>
    \o (IF Len(text_evidence) > 0
        THEN << <<"#### Text Evidence:">> >>
             \o [idx \in 1..Len(text_evidence) |->
                    <<"[", ToString(idx), "] (Score: ", "0.12", ") ">>
                        \o ContentPreview(text_evidence[idx])]
        ELSE <<>>)
    \o (IF Len(image_evidence) > 0
        THEN << <<"\n#### Image Evidence:">> >>
             \o [idx \in 1..Len(image_evidence) |->
                    <<"- Figure ", image_evidence[idx].id, " (Page ",
                      IF image_evidence[idx].page = None THEN "0"
                      ELSE image_evidence[idx].page[1],
                      "): ", image_evidence[idx].content>>]
        ELSE <<>>)

\* what retriever_tool returns: always a str
StrValue(text) == [type |-> "str", text |-> text]

NotInitialized ==
    StrValue(<<"System Error: Vector store is not initialized. Please check configuration.">>)
SearchError(err) == StrValue(<<"Search Error: An error occurred while searching: ", err>>)
NoEvidence == StrValue(<<"No relevant information found.">>)

FormatResults(query, raw_results) ==
    IF Len(TextEvidence(raw_results)) = 0 /\ Len(ImageEvidence(raw_results)) = 0
    THEN NoEvidence
    ELSE StrValue(JoinLines(OutputLines(query, TextEvidence(raw_results),
                                        ImageEvidence(raw_results))))

ToolInit ==
    /\ rt_pc = "idle"
    /\ rt_cfg \in BOOLEAN
    /\ vector_store = "none"
    /\ rt_query = <<>>
    /\ rt_results = None
    /\ rt_out = None
    /\ rt_calls = 0
    /\ OrchIdle
    /\ StageIdle
    /\ XIdle
    /\ CommandIdle
    /\ VLIdle

\* one call of retriever_tool(query); get_vector_store builds the store on
\* the first call that finds a cfg, outside any handler
ToolCall ==
    /\ rt_pc # "off"
    /\ rt_calls < MaxToolCalls
    /\ rt_calls' = rt_calls + 1
    /\ \E query \in ToolQueries, b \in BuildOutcomes, o \in SearchOutcomes :
          /\ rt_query' = query
          /\ IF vector_store = "none" /\ rt_cfg /\ b = "raise"
             THEN /\ rt_pc' = "raised"
                  /\ rt_out' = None
                  /\ rt_results' = None
                  /\ UNCHANGED vector_store
             ELSE /\ rt_pc' = "returned"
                  /\ vector_store' = IF rt_cfg THEN "ready" ELSE vector_store
                  /\ IF ~rt_cfg
                     THEN rt_out' = Some(NotInitialized) /\ rt_results' = None
                     ELSE IF ~o.ok
                     THEN rt_out' = Some(SearchError(o.err)) /\ rt_results' = None
                     ELSE /\ rt_out' = Some(FormatResults(query, o.hits))
                          /\ rt_results' = Some(o.hits)
    /\ UNCHANGED <<rt_cfg, ovars, svars, xvars, mvars, vvars>>

ToolNext == ToolCall

ToolSpec == ToolInit /\ [][ToolNext]_vars

\* ---------------------------------------------------------------- commands
MaxChunks == 2
MaxFigures == 2

PdfPaths == {<<"paper.pdf">>, <<"missing.pdf">>}
AgentNames == <<"PlannerAgent", "RetrieverAgent", "ReasonerAgent", "ReviewerAgent">>
ConstructOutcomes == {"ok", "raise"}
ParseOutcomes ==
    {[ok |-> FALSE, text_chunks |-> 0, figure_data |-> 0, err |-> "parse error"]} \cup
    {[ok |-> TRUE, text_chunks |-> c, figure_data |-> f, err |-> "none"] :
        c \in 0..MaxChunks, f \in 0..MaxFigures}
StoreOutcomes == {"ok", "build raise", "add raise"}

\* mutant: a missing file only warned about, the configuration left empty
ConfigCheckWarnOnly(entry, exists) == "loaded"

\* load_config (main.py) and the module setup of app.py
ConfigCheck(entry, exists) ==
    IF exists THEN "loaded"
    ELSE IF entry = "cli" THEN "exit 1"
    ELSE "FileNotFoundError"

\* mutant: the vector-store step entered whatever the parse gave
AfterParseAlwaysStore(ok) == "store"

\* ingest_document after the parse: return from the handler on failure
AfterParse(ok) == IF ok THEN "store" ELSE "returned"

CommandInit ==
    /\ cm_pc = "load"
    /\ cm_entry \in {"cli", "gui"}
    /\ cm_mode \in IF cm_entry = "cli" THEN {"ingest", "chat"} ELSE {"serve"}
    /\ cm_config \in BOOLEAN
    /\ cm_arg \in CASE cm_mode = "ingest" -> PdfPaths
                  [] cm_mode = "chat" -> UserQueries
                  [] OTHER -> {<<>>}
    /\ cm_exit = None
    /\ cm_error = None
    /\ cm_agents = <<>>
    /\ cm_parsed = None
    /\ cm_store = None
    /\ cm_writes = 0
    /\ cm_log = <<>>
    /\ OrchIdle
    /\ StageIdle
    /\ XIdle
    /\ ToolIdle
    /\ VLIdle

\* cfg = load_config() in main; the existence test at the top of app.py
LoadConfig ==
    /\ cm_pc = "load"
    /\ \E c \in {ConfigCheck(cm_entry, cm_config)} :
          CASE c = "loaded" ->
                  /\ cm_pc' = IF cm_mode = "ingest" THEN "ingest" ELSE "agents"
                  /\ UNCHANGED <<cm_exit, cm_error, cm_log>>
            [] c = "exit 1" ->
                  /\ cm_pc' = "exited"
                  /\ cm_exit' = Some(1)
                  /\ cm_log' = Append(cm_log, "Config file not found")
                  /\ UNCHANGED cm_error
            [] OTHER ->
                  /\ cm_pc' = "failed"
                  /\ cm_error' = Some(c)
                  /\ cm_exit' = Some(1)
                  /\ UNCHANGED cm_log
    /\ UNCHANGED <<cm_entry, cm_mode, cm_config, cm_arg, cm_agents, cm_parsed,
                   cm_store, cm_writes, ovars, svars, xvars, tvars, vvars>>

\* PlannerAgent(cfg), RetrieverAgent(cfg), ReasonerAgent(cfg), ReviewerAgent(cfg)
ConstructAgent ==
    /\ cm_pc = "agents"
    /\ \E o \in ConstructOutcomes :
          IF o = "raise"
          THEN /\ cm_pc' = "failed"
               /\ cm_error' = Some("agent construction error")
               /\ cm_exit' = Some(1)
               /\ UNCHANGED cm_agents
          ELSE /\ cm_agents' = Append(cm_agents, AgentNames[Len(cm_agents) + 1])
               /\ cm_pc' = IF Len(cm_agents) + 1 < Len(AgentNames) THEN "agents"
                           ELSE IF cm_entry = "cli" THEN "pipeline"
                           ELSE "serving"
               /\ UNCHANGED <<cm_error, cm_exit>>
    /\ UNCHANGED <<cm_entry, cm_mode, cm_config, cm_arg, cm_parsed, cm_store,
                   cm_writes, cm_log, ovars, svars, xvars, tvars, vvars>>

\* ingest_document, step 1: PDFParser(cfg).parse_pdf(pdf_path) in its handler
ParsePdf ==
    /\ cm_pc = "ingest"
    /\ \E o \in ParseOutcomes :
          /\ cm_parsed' = IF o.ok THEN Some([text_chunks |-> o.text_chunks,
                                              figure_data |-> o.figure_data])
                          ELSE None
          /\ cm_log' = Append(cm_log, IF o.ok THEN "Parsed PDF successfully"
                                      ELSE "PDF Parsing Failed")
          /\ cm_pc' = AfterParse(o.ok)
    /\ UNCHANGED <<cm_entry, cm_mode, cm_config, cm_arg, cm_exit, cm_error,
                   cm_agents, cm_store, cm_writes, ovars, svars, xvars, tvars, vvars>>

\* ingest_document, step 2: VectorStoreManager(cfg).add_documents(...) in
\* its handler
StoreDocuments ==
    /\ cm_pc = "store"
    /\ \E o \in StoreOutcomes :
          /\ cm_store' = Some(o)
          /\ cm_writes' = IF o = "build raise" THEN cm_writes ELSE cm_writes + 1
          /\ cm_log' = Append(cm_log, IF o = "ok" THEN "Ingestion Complete"
                                      ELSE "Vector DB Storage Failed")
    /\ cm_pc' = "returned"
    /\ UNCHANGED <<cm_entry, cm_mode, cm_config, cm_arg, cm_exit, cm_error,
                   cm_agents, cm_parsed, ovars, svars, xvars, tvars, vvars>>

\* main returns after ingest_document: the process ends with status 0
ReturnFromMain ==
    /\ cm_pc = "returned"
    /\ cm_pc' = "exited"
    /\ cm_exit' = Some(0)
    /\ UNCHANGED <<cm_entry, cm_mode, cm_config, cm_arg, cm_error, cm_agents,
                   cm_parsed, cm_store, cm_writes, cm_log, ovars, svars, xvars, tvars, vvars>>

CommandNext == LoadConfig \/ ConstructAgent \/ ParsePdf \/ StoreDocuments \/ ReturnFromMain

CommandSpec == CommandInit /\ [][CommandNext]_vars

\* ---------------------------------------------------------- image analysis
VLMaxRetries == 3

VLOutput(description, insights) == [description |-> description, insights |-> insights]

\* outcomes of self._client.chat.completions.create
VLOutcomes ==
    {GenFail("timeout")} \cup
    {GenOk(content) : content \in
        {<<"{vl: d, i}">>,
         <<WS, FENCE, JSONTAG, WS, "{vl: d, i}", WS, FENCE, WS>>,
         <<FENCE, "{vl: d, i}", FENCE>>,
         <<"{}">>,
         <<"{vl: description null}">>,
         <<"[1]">>,
         <<"not json">>}}

\* the cleaning of analyze_image: trim, cut a leading tagged fence and a
\* trailing fence; no second trim
VLClean(content) ==
    Only({ Only({ IF EndsWith(b, <<FENCE>>) THEN DropLast(b, 1) ELSE b
        : b \in {IF StartsWith(a, <<FENCE, JSONTAG>>) THEN DropFirst(a, 2) ELSE a}})
        : a \in {Strip(content)}})

\* json.loads skips the whitespace around the document
VLIsJson(raw_content) == IsJson(Strip(raw_content))
VLJsonLoads(raw_content) == JsonLoads(Strip(raw_content))

\* one iteration of the loop: [done, out]; done is FALSE when the loop goes
\* on to the next attempt
VLIteration(i, o) ==
    IF ~o.ok
    THEN IF i = VLMaxRetries - 1
         THEN [done |-> TRUE,
               out |-> VLOutput(<<"Error calling VL model.">>, <<o.err>>)]
         ELSE [done |-> FALSE, out |-> VLOutput(<<>>, <<>>)]
    ELSE Only({
         IF ~VLIsJson(raw_content)
         THEN IF i = VLMaxRetries - 1
              THEN [done |-> TRUE,
                    out |-> VLOutput(raw_content,
                                     <<"Failed to parse structured insights.">>)]
              ELSE [done |-> FALSE, out |-> VLOutput(<<>>, <<>>)]
         ELSE Only({
              IF data.kind = "obj"
                 /\ ValidStr(DataGet(data, "description", JStr(<<"No description provided.">>)))
                 /\ ValidStr(DataGet(data, "insights", JStr(<<"No insights provided.">>)))
              THEN [done |-> TRUE,
                    out |-> VLOutput(
                        DataGet(data, "description", JStr(<<"No description provided.">>)).s,
                        DataGet(data, "insights", JStr(<<"No insights provided.">>)).s)]
              ELSE IF i = VLMaxRetries - 1
              THEN [done |-> TRUE,
                    out |-> VLOutput(<<"Error calling VL model.">>,
                                     <<IF data.kind = "obj" THEN "ValidationError"
                                       ELSE "AttributeError">>)]
              ELSE [done |-> FALSE, out |-> VLOutput(<<>>, <<>>)]
              : data \in {VLJsonLoads(raw_content)}})
         : raw_content \in {VLClean(o.content)}})

VLInit ==
    /\ vl_pc = "idle"
    /\ vl_cfg \in {"none", "no vl", "full"}
    /\ vl_image \in {"missing", "unreadable", "ok"}
    /\ attempt = 0
    /\ vl_calls = <<>>
    /\ vl_out = None
    /\ OrchIdle
    /\ StageIdle
    /\ XIdle
    /\ ToolIdle
    /\ CommandIdle

\* analyze_image up to the loop: the three early returns, then the reads of
\* self._cfg.models.vl, which are outside every handler
VLEnter ==
    /\ vl_pc = "idle"
    /\ CASE vl_image = "missing" ->
              /\ vl_pc' = "returned"
              /\ vl_out' = Some(VLOutput(<<"Error: Image file not found.">>,
                                         <<"Cannot analyze missing image.">>))
         [] vl_image # "missing" /\ vl_cfg = "none" ->
              /\ vl_pc' = "returned"
              /\ vl_out' = Some(VLOutput(<<"Error: API Client not initialized">>,
                                         <<"Check config.">>))
         [] vl_image = "unreadable" /\ vl_cfg # "none" ->
              /\ vl_pc' = "returned"
              /\ vl_out' = Some(VLOutput(<<"Error reading image file.">>,
                                         <<"OSError">>))
         [] vl_image = "ok" /\ vl_cfg = "no vl" ->
              /\ vl_pc' = "raised"
              /\ vl_out' = None
         [] OTHER ->
              /\ vl_pc' = "loop"
              /\ vl_out' = None
    /\ UNCHANGED <<vl_cfg, vl_image, attempt, vl_calls, ovars, svars, xvars, tvars, mvars>>

\* for attempt in range(max_retries): one call of the vision model
VLAttempt ==
    /\ vl_pc = "loop"
    /\ attempt < VLMaxRetries
    /\ \E o \in VLOutcomes : \E r \in {VLIteration(attempt, o)} :
          /\ vl_calls' = Append(vl_calls, o)
          /\ IF r.done
             THEN /\ vl_pc' = "returned"
                  /\ vl_out' = Some(r.out)
                  /\ UNCHANGED attempt
             ELSE /\ attempt' = attempt + 1
                  /\ UNCHANGED <<vl_pc, vl_out>>
    /\ UNCHANGED <<vl_cfg, vl_image, ovars, svars, xvars, tvars, mvars>>

\* the return after the loop (vl_agent.py:146) is never reached: the
\* iteration with attempt = 2 returns on each of its paths
VLNext == VLEnter \/ VLAttempt

VLSpec == VLInit /\ [][VLNext]_vars

\* ------------------------------------------------------------------ history helpers
CallsOf(stage) == SelectSeq(calls, LAMBDA c : c.stage = stage)
NumCalls(stage) == Len(CallsOf(stage))
\* positions in the call history of the calls of a stage
PositionsOf(stage) == {k \in DOMAIN calls : calls[k].stage = stage}
Rejected(i) == attempts[i].verdict.decision = "REJECT"
Accepted(i) == attempts[i].verdict.decision = "ACCEPT"
AllRejected == \A i \in DOMAIN attempts : Rejected(i)
IsReviewFallback(v) ==
    /\ Len(v.critique) = 1
    /\ Len(v.critique[1]) > 0
    /\ v.critique[1][1] = "System error during review: "

\* ------------------------------------------------------------------ claims
\* C1: whatever the stages return (REJECT every time, failed or malformed
\* output), a started session makes at most max_retries + 1 = 3 Reason calls
\* and 3 Review calls, and then reaches the final-output step.
C1_TerminatesWithinBudget ==
    /\ [](NumCalls("reason") <= max_retries + 1 /\ NumCalls("review") <= max_retries + 1)
    /\ (pc = "planning" ~> pc = "done")

\* three rounds, all rejected, the last one by a failed Review Stage on the
\* fallback draft of a failed Reason decode, and the final output made
C1_Witness ==
    /\ pc = "done"
    /\ Len(attempts) = 3
    /\ AllRejected
    /\ IsReviewFallback(attempts[3].verdict)
    /\ attempts[3].draft.reasoning_trace = <<"JSON Parse Error">>

\* C2: when every verdict is REJECT, exactly 3 attempts (indexes 0, 1, 2) are
\* made, the session ends not accepted with no final answer set, and the
\* draft reported is the draft of the 3rd attempt.
C2_ExhaustionReportsLastDraft ==
    (pc = "done" /\ AllRejected) =>
        /\ Len(attempts) = 3
        /\ NumCalls("reason") = 3
        /\ \A i \in 1..3 : attempts[i].index = i - 1
        /\ final_answer = None
        /\ ~shown[1].accepted
        /\ shown[1].draft = attempts[3].draft

\* exhaustion where the last draft differs from the two before it
C2_Witness ==
    /\ pc = "done"
    /\ AllRejected
    /\ Len(attempts) = 3
    /\ attempts[3].draft # attempts[1].draft
    /\ attempts[3].draft # attempts[2].draft
    /\ shown[1].draft = attempts[3].draft

\* C3: the session is accepted iff some attempt's verdict is ACCEPT; the
\* first such attempt is the last one, its review is the last stage call of
\* the session, and the final answer is the draft that verdict reviewed.
C3_AcceptedIffAcceptVerdict ==
    /\ (final_answer # None) <=> (\E i \in DOMAIN attempts : Accepted(i))
    /\ \A i \in DOMAIN attempts :
          Accepted(i) =>
             /\ i = Len(attempts)
             /\ pc \in {"final", "done"}
             /\ final_answer = Some(attempts[i].draft)
             /\ calls[Len(calls)].stage = "review"
             /\ calls[Len(calls)].draft = final_answer
    /\ (pc = "done") =>
          /\ shown[1].accepted <=> (\E i \in DOMAIN attempts : Accepted(i))
          /\ shown[1].accepted => shown[1].draft = final_answer[1]

\* accepted on the second attempt, with a score of 0.0
C3_Witness ==
    /\ pc = "done"
    /\ Len(attempts) = 2
    /\ Rejected(1)
    /\ Accepted(2)
    /\ attempts[2].verdict.confidence_score = 0
    /\ shown[1].accepted
    /\ attempts[2].draft # attempts[1].draft

\* C4 (as claimed): a supplemental retrieval call is made only after the
\* REJECT of an attempt with index < max_retries, so none follows the last
\* Reason/Review round.
C4_SupplementalOnlyBeforeRetry ==
    \A k \in PositionsOf("supplemental") :
        Cardinality({j \in PositionsOf("review") : j < k}) - 1 < max_retries

\* C5: when the first verdict is ACCEPT, no supplemental call is made (also
\* when the verdict carries a supplemental query): the retrieval calls of
\* the session are one per planned query, all before the first Reason call.
C5_AcceptFirstNoSupplemental ==
    (Len(attempts) >= 1 /\ Accepted(1)) =>
        /\ NumCalls("supplemental") = 0
        /\ NumCalls("retrieve") = Len(plan[1].search_queries)
        /\ \A k \in PositionsOf("retrieve") : \A r \in PositionsOf("reason") : k < r
        /\ Len(attempts) = 1

\* first verdict ACCEPT with a non-empty supplemental query, after two
\* planned searches
C5_Witness ==
    /\ pc = "done"
    /\ Accepted(1)
    /\ Truthy(attempts[1].verdict.feedback_for_retriever)
    /\ NumCalls("retrieve") = 2
    /\ NumCalls("supplemental") = 0

\* the text of the initial evidence: one segment per planned query, in order
RECURSIVE InitialSegmentsOk(_, _)
InitialSegmentsOk(ev, queries) ==
    IF Len(queries) = 0 THEN ev = <<>>
    ELSE LET q == Head(queries)
             head == <<"\n--- Search Result for '">> \o q \o <<"' ---\n">>
         IN  /\ StartsWith(ev, head)
             /\ \E o \in RetrieverOutcomes :
                   LET seg == head \o RetrieverRun(q, o) \o <<"\n">> IN
                   /\ StartsWith(ev, seg)
                   /\ InitialSegmentsOk(DropFirst(ev, Len(seg)), Tail(queries))

\* C6: when attempt 0 is REJECTed with a supplemental query s and attempt 1
\* runs, the only call between attempt 0's Review and attempt 1's Reason is
\* one retrieval for s, and attempt 1's evidence is the initial segments
\* followed by the supplemental segment.
C6_OneSupplementalBeforeSecondReason ==
    (/\ Len(attempts) >= 1
     /\ Rejected(1)
     /\ Truthy(attempts[1].verdict.feedback_for_retriever)
     /\ NumCalls("reason") >= 2) =>
        LET s == attempts[1].verdict.feedback_for_retriever[1]
            r1 == CHOOSE k \in PositionsOf("reason") :
                      \A j \in PositionsOf("reason") : k <= j
            v1 == CHOOSE k \in PositionsOf("review") :
                      \A j \in PositionsOf("review") : k <= j
            r2 == CHOOSE k \in PositionsOf("reason") \ {r1} :
                      \A j \in PositionsOf("reason") \ {r1} : k <= j
        IN  /\ r2 = v1 + 2
            /\ calls[v1 + 1].stage = "supplemental"
            /\ calls[v1 + 1].arg = s
            /\ InitialSegmentsOk(calls[r1].ev, plan[1].search_queries)
            /\ \E o \in RetrieverOutcomes :
                  calls[r2].ev = calls[r1].ev
                                   \o <<SupplementalHeading(ui)>>
                                   \o RetrieverRun(s, o) \o <<"\n">>

\* second Reason call made after a REJECT with query s1, two planned searches
C6_Witness ==
    /\ NumCalls("reason") >= 2
    /\ Rejected(1)
    /\ attempts[1].verdict.feedback_for_retriever = Some(<<"s1">>)
    /\ Len(plan[1].search_queries) = 2
    /\ NumCalls("supplemental") = 1

\* C7: the evidence text given to the Reason Stage at one attempt is a prefix
\* of the evidence text given at the next attempt (so it never shrinks and
\* no segment is removed or reordered).
C7_EvidenceAppendOnly ==
    LET R == CallsOf("reason") IN
    \A i \in 1..(Len(R) - 1) :
        /\ StartsWith(R[i + 1].ev, R[i].ev)
        /\ Len(R[i].ev) <= Len(R[i + 1].ev)

\* three attempts over non-empty initial evidence, each with more evidence
\* than the one before
C7_Witness ==
    LET R == CallsOf("reason") IN
    /\ Len(R) = 3
    /\ Len(R[1].ev) > 0
    /\ Len(R[1].ev) < Len(R[2].ev)
    /\ Len(R[2].ev) < Len(R[3].ev)

\* ------------------------------------------------------------------ stage claims
\* what a stage decodes: a generation call that returned text which, once
\* cleaned, is one JSON object whose members have the types the record needs
DecodesToObject(g) ==
    /\ g.ok
    /\ IsJson(CleanJsonOutput(g.content))
    /\ JsonLoads(CleanJsonOutput(g.content)).kind = "obj"

MemberIs(g, key, types) ==
    JsonLoads(CleanJsonOutput(g.content)).f[key].t \in types \cup {"absent"}

PlanDecodable(g) ==
    /\ DecodesToObject(g)
    /\ MemberIs(g, "reasoning", {"str"})
    /\ MemberIs(g, "search_queries", {"arr"})
    /\ MemberIs(g, "need_visual_understanding", {"bool"})

ReasonDecodable(g) ==
    /\ DecodesToObject(g)
    /\ MemberIs(g, "reasoning_trace", {"str"})
    /\ MemberIs(g, "draft_answer", {"str"})
    /\ MemberIs(g, "citations", {"arr"})

\* C8 (as claimed): every Plan returned by the Plan Stage has a non-empty
\* search_queries, whatever the generation output.
C8_PlanQueriesNonEmpty ==
    (st_stage = "plan" /\ st_out # None) => Len(st_out[1].search_queries) >= 1

\* C9: when the generation call fails or its output cannot be decoded, plan
\* returns the degraded Plan: search_queries is exactly [Query] and
\* need_visual_understanding is false.
C9_PlanDegradesToQuery ==
    (st_stage = "plan" /\ st_out # None /\ ~PlanDecodable(st_gen)) =>
        /\ st_out[1].search_queries = <<st_query>>
        /\ st_out[1].need_visual_understanding = FALSE

\* the spec's example: output "not json" on a query yields [query], false
C9_Witness ==
    /\ st_stage = "plan"
    /\ st_gen = GenOk(<<"not json">>)
    /\ st_query = <<"Q">>
    /\ st_out = Some(PlanParseFailed(<<"Q">>))
    /\ st_out[1].search_queries = << <<"Q">> >>

\* C10 (as claimed): when the generation call succeeds and its output cannot
\* be decoded into the Reason record, run returns the raw generation text as
\* the answer, with no citations and the parse-failure trace.
C10_RawPreservedOnCodecFailure ==
    (st_stage = "reason" /\ st_out # None /\ st_gen.ok /\ ~ReasonDecodable(st_gen)) =>
        /\ st_out[1].draft_answer = st_gen.content
        /\ st_out[1].citations = <<>>
        /\ st_out[1].reasoning_trace = <<"JSON Parse Error">>

ReviewDecodable(g) ==
    /\ DecodesToObject(g)
    /\ LET sc == JsonLoads(CleanJsonOutput(g.content)).f["confidence_score"] IN
          sc.t = "absent" \/ FloatOk(sc)
    /\ LET d == JsonLoads(CleanJsonOutput(g.content)).f["decision"] IN
          d.t = "absent" \/ (d.t = "str" /\ d.s \in {<<"ACCEPT">>, <<"REJECT">>})
    /\ MemberIs(g, "critique", {"str", "null"})
    /\ MemberIs(g, "feedback_for_retriever", {"str", "null"})

\* C11: when the Review Stage's generation call fails or its output cannot
\* be decoded into a verdict, review returns the conservative fallback:
\* REJECT, score 0.0, a critique carrying the error text and a non-empty
\* supplemental query; never ACCEPT.
C11_ReviewFailureRejects ==
    (st_stage = "review" /\ st_out # None /\ ~ReviewDecodable(st_gen)) =>
        /\ st_out[1].decision = "REJECT"
        /\ st_out[1].confidence_score = 0
        /\ Len(st_out[1].critique) = 1
        /\ Len(st_out[1].critique[1]) = 2
        /\ st_out[1].critique[1][1] = "System error during review: "
        /\ st_out[1].critique[1][2] \in
              {"timeout", "JSONDecodeError", "AttributeError", "TypeError",
               "ValueError", "ValidationError"}
        /\ Truthy(st_out[1].feedback_for_retriever)

\* a fenced object whose decision says ACCEPT but whose score is null, and
\* the fallback returned for it
C11_Witness ==
    /\ st_stage = "review"
    /\ st_gen = GenOk(<<FENCE, JSONTAG, "{ACCEPT, score null}", FENCE>>)
    /\ st_out # None
    /\ st_out[1].decision = "REJECT"
    /\ st_out[1].critique = Some(<<"System error during review: ", "TypeError">>)

\* the types the three schemas declare
Text == Seq(STRING)
IsPlannerOutput(r) ==
    /\ DOMAIN r = {"reasoning", "search_queries", "need_visual_understanding"}
    /\ r.reasoning \in Text
    /\ r.search_queries \in Seq(Text)
    /\ r.need_visual_understanding \in BOOLEAN
IsReasonerOutput(r) ==
    /\ DOMAIN r = {"draft_answer", "citations", "reasoning_trace"}
    /\ r.draft_answer \in Text
    /\ r.citations \in Seq(Text)
    /\ r.reasoning_trace \in Text
IsReviewerOutput(r) ==
    /\ DOMAIN r = {"confidence_score", "decision", "critique", "feedback_for_retriever"}
    /\ r.confidence_score \in Int
    /\ r.decision \in {"ACCEPT", "REJECT"}
    /\ Len(r.critique) <= 1 /\ r.critique \in Seq(Text)
    /\ Len(r.feedback_for_retriever) <= 1 /\ r.feedback_for_retriever \in Seq(Text)

C14_ScoreWithinUnitInterval ==
    (st_stage = "review" /\ st_out # None) =>
        (0 <= st_out[1].confidence_score /\ st_out[1].confidence_score <= 10)

ScoreValues == {0, 2, 8, 10, 15}

\* C15: control flow depends on the verdict's decision and never on its
\* score: the branch taken after a Review call is the branch the orchestrator
\* takes for the same verdict with any other score (so two sessions that
\* differ only in scores make the same calls and end alike).
C15_ScoreDoesNotSteer ==
    [][(pc = "reviewing" /\ pc' # "reviewing") =>
          LET taken == IF final_answer' # None THEN "accept"
                       ELSE IF pc' = "supplemental" THEN "supplemental"
                       ELSE "retry"
          IN  /\ \A s \in ScoreValues :
                    ReviewBranch([review'[1] EXCEPT !.confidence_score = s]) = taken
              /\ (taken = "accept") = (review'[1].decision = "ACCEPT")
              /\ taken = "accept" => (pc' = "final" /\ final_answer' = draft_output)
              /\ taken = "retry" => current_attempt' = current_attempt + 1]_vars

\* a REJECT with score 1.5 was retried and an ACCEPT with score 0.0 accepted
C15_Witness ==
    /\ pc = "done"
    /\ Len(attempts) = 2
    /\ Rejected(1) /\ attempts[1].verdict.confidence_score = 15
    /\ Accepted(2) /\ attempts[2].verdict.confidence_score = 0
    /\ shown[1].accepted
    /\ NumCalls("reason") = 2

\* C16: the Plan Stage is invoked once per session, first, and never again;
\* the initial retrieval round makes one call per element of
\* plan.search_queries, in order and duplicates included, all before the
\* first Reason call; no planned query is searched again afterwards.
C16_PlanOnceSearchOncePerQuery ==
    /\ NumCalls("plan") <= 1
    /\ pc \notin {"start", "planning", "noinput"} =>
          /\ NumCalls("plan") = 1
          /\ calls[1].stage = "plan"
          /\ LET R == CallsOf("retrieve")
                 queries == plan[1].search_queries
             IN  /\ Len(R) <= Len(queries)
                 /\ \A i \in DOMAIN R : R[i].arg = queries[i]
                 /\ NumCalls("reason") >= 1 =>
                       /\ Len(R) = Len(queries)
                       /\ \A k \in PositionsOf("retrieve") :
                             \A r \in PositionsOf("reason") : k < r

\* a plan with the same query twice, searched twice, and three attempts
C16_Witness ==
    /\ pc = "done"
    /\ plan[1].search_queries = <<<<"a">>, <<"a">>>>
    /\ NumCalls("retrieve") = 2
    /\ NumCalls("reason") = 3
    /\ NumCalls("supplemental") >= 1
    /\ NumCalls("plan") = 1

\* C17: at attempt 0, and after a verdict whose critique is absent or empty,
\* the Reason Stage receives the bare query; at every other attempt it
\* receives the query with the critique of the verdict just before it (and
\* of no earlier one) appended.
C17_ReasonQueryCarriesLastCritique ==
    LET R == CallsOf("reason") IN
    \A i \in DOMAIN R :
        IF i = 1 THEN R[i].arg = user_query
        ELSE LET c == attempts[i - 1].verdict.critique IN
             IF ~Truthy(c) THEN R[i].arg = user_query
             ELSE R[i].arg =
                     IF ui = "cli"
                     THEN user_query \o <<"\n\n(PREVIOUS FEEDBACK: ">> \o c[1]
                              \o <<". Please improve the answer.)">>
                     ELSE user_query \o <<"\n(Critique from previous turn: ">>
                              \o c[1] \o <<")">>

\* attempt 0 rejected with a critique, attempt 1 rejected without one: the
\* second Reason call got the critique, the third the bare query
C17_Witness ==
    /\ NumCalls("reason") = 3
    /\ Truthy(attempts[1].verdict.critique)
    /\ attempts[2].verdict.critique = None
    /\ CallsOf("reason")[2].arg # user_query
    /\ CallsOf("reason")[3].arg = user_query

\* C18: the Plan Stage and every Review Stage call receive exactly the
\* original user query, also on attempts where the Reason Stage received the
\* query with a critique appended.
C18_QueryNotMutated ==
    \A k \in DOMAIN calls :
        calls[k].stage \in {"plan", "review"} => calls[k].arg = user_query

\* a Review call that follows a Reason call given the query plus a critique
C18_Witness ==
    \E k \in DOMAIN calls :
        /\ k > 1
        /\ calls[k].stage = "review"
        /\ calls[k].arg = user_query
        /\ calls[k - 1].stage = "reason"
        /\ calls[k - 1].arg # user_query
        /\ Len(user_query) > 0

RECURSIVE LabeledSegments(_, _)
LabeledSegments(u, ls) ==
    IF Len(ls) = 0 THEN <<>>
    ELSE LET l == Head(ls)
             heading ==
                 IF l.kind = "initial"
                 THEN <<"\n--- Search Result for '">> \o l.query \o <<"' ---\n">>
                 ELSE IF u = "cli" THEN <<"\n--- Supplemental Evidence ---\n">>
                 ELSE <<"\n--- Supplemental ---\n">>
         IN  heading \o l.result \o <<"\n">> \o LabeledSegments(u, Tail(ls))

\* C19: the evidence block is one segment per planned query, in planned
\* order and each headed by its query, followed by the supplemental
\* segments, each under the supplemental heading, in the order of the
\* attempts that triggered them.
C19_EvidenceBlockLayout ==
    pc \notin {"start", "planning", "noinput"} =>
        LET queries == plan[1].search_queries
            sup == SelectSeq(lookups, LAMBDA l : l.kind = "supplemental")
            trig == SelectSeq(attempts,
                        LAMBDA a : /\ a.verdict.decision = "REJECT"
                                   /\ Truthy(a.verdict.feedback_for_retriever))
        IN  /\ aggregated_context = LabeledSegments(ui, lookups)
            /\ \A j \in DOMAIN lookups :
                  IF j <= Len(queries)
                  THEN lookups[j].kind = "initial" /\ lookups[j].query = queries[j]
                  ELSE lookups[j].kind = "supplemental"
            /\ NumCalls("reason") >= 1 => Len(lookups) >= Len(queries)
            /\ Len(sup) <= Len(trig)
            /\ \A k \in DOMAIN sup :
                  sup[k].query = trig[k].verdict.feedback_for_retriever[1]

\* two planned segments followed by two supplemental segments for the
\* queries of attempt 0 and attempt 1, given to the third Reason call
C19_Witness ==
    /\ NumCalls("reason") = 3
    /\ plan[1].search_queries = <<<<"a">>, <<"b">>>>
    /\ Len(lookups) = 4
    /\ lookups[3].query = <<"s1">>
    /\ lookups[4].query = <<"System error, please retry aggregation.">>
    /\ CallsOf("reason")[3].ev = aggregated_context

\* C20: an error raised by the retrieval capability during any Retrieval
\* Dispatcher call, initial or supplemental, is caught and becomes a text
\* segment stating the failure, appended like any other result; the
\* remaining planned queries and the Reason/Review loop still run.
C20_RetrievalFailureBecomesEvidence ==
    /\ pc # "crashed"
    /\ \A j \in DOMAIN lookups :
          ~lookups[j].outcome.ok =>
              lookups[j].result = <<"Retriever failed: ", lookups[j].outcome.err>>
    /\ Cardinality({i \in 1..(Len(aggregated_context) - 2) :
                       /\ aggregated_context[i] = "Retriever failed: "
                       /\ aggregated_context[i + 1] = "timeout"
                       /\ aggregated_context[i + 2] = "\n"})
          = Cardinality({j \in DOMAIN lookups : ~lookups[j].outcome.ok})
    /\ pc \in {"final", "done"} =>
          /\ Len(SelectSeq(lookups, LAMBDA l : l.kind = "initial"))
                = Len(plan[1].search_queries)
          /\ NumCalls("reason") >= 1
          /\ NumCalls("review") = NumCalls("reason")

\* the first of two planned searches and a supplemental search failed, the
\* second planned search ran, and the session went on to a second attempt
C20_Witness ==
    /\ pc = "done"
    /\ Len(lookups) >= 3
    /\ ~lookups[1].outcome.ok
    /\ lookups[2].kind = "initial" /\ lookups[2].outcome.ok
    /\ lookups[3].kind = "supplemental" /\ ~lookups[3].outcome.ok
    /\ NumCalls("reason") >= 2

\* the cleaning step as the claim describes it: one leading marker (a fence,
\* with its json tag when it has one), one trailing fence, then trimming
CleanOneMarker(raw_output) ==
    LET a == Strip(raw_output)
        b == IF StartsWith(a, <<FENCE, JSONTAG>>) THEN DropFirst(a, 2)
             ELSE IF StartsWith(a, <<FENCE>>) THEN DropFirst(a, 1)
             ELSE a
        c == IF EndsWith(b, <<FENCE>>) THEN DropLast(b, 1) ELSE b
    IN  Strip(c)

\* C22 (as claimed): the cleaning step removes at most one leading fence
\* marker (optionally tagged json) and at most one trailing fence and then
\* trims; it never removes two leading markers and leaves unfenced text
\* unchanged apart from trimming.
C22_CleanRemovesOneMarker ==
    (st_out # None /\ st_gen.ok) =>
        CleanJsonOutput(st_gen.content) = CleanOneMarker(st_gen.content)

\* C30: review returns ACCEPT only when the output decodes to an object whose
\* decision is exactly "ACCEPT" and whose score converts to a number; an
\* object without a decision is a REJECT; any other decision value, or a
\* score that does not convert, gives the REJECT fallback.
C30_AcceptOnlyOnExactDecision ==
    (st_stage = "review" /\ st_out # None) =>
        LET v == st_out[1]
            data == JsonLoads(CleanJsonOutput(st_gen.content))
            d == data.f["decision"]
            sc == data.f["confidence_score"]
            numeric == \/ sc.t \in {"absent", "num", "bool"}
                       \/ sc.t = "str" /\ sc.s = <<"0.9">>
        IN  /\ v.decision = "ACCEPT" =>
                  /\ DecodesToObject(st_gen)
                  /\ d = JStr(<<"ACCEPT">>)
                  /\ numeric
            /\ DecodesToObject(st_gen) =>
                  /\ d.t = "absent" => v.decision = "REJECT"
                  /\ (d.t # "absent" /\ d \notin {JStr(<<"ACCEPT">>), JStr(<<"REJECT">>)})
                        => (v.decision = "REJECT" /\ IsReviewFallback(v))
                  /\ ~numeric => (v.decision = "REJECT" /\ IsReviewFallback(v))

\* an ACCEPT whose score is the text 'high', answered by the fallback
C30_Witness ==
    /\ st_stage = "review"
    /\ st_gen = GenOk(<<FENCE, "{ACCEPT 'high'}", FENCE>>)
    /\ st_out # None
    /\ st_out[1].decision = "REJECT"
    /\ IsReviewFallback(st_out[1])

\* the attempts whose REJECT verdict carries a non-empty supplemental query
RejectsWithQuery ==
    {i \in DOMAIN attempts :
        Rejected(i) /\ Truthy(attempts[i].verdict.feedback_for_retriever)}

\* C28: each REJECTed attempt triggers at most one supplemental retrieval and
\* an ACCEPTed attempt none: the supplemental calls made are one per REJECT
\* verdict with a non-empty supplemental query, and at the end of a session
\* the retrieval calls number the planned queries plus those verdicts.
C28_RetrievalCallCount ==
    /\ NumCalls("supplemental")
          = Cardinality(RejectsWithQuery) - (IF pc = "supplemental" THEN 1 ELSE 0)
    /\ \A k \in PositionsOf("supplemental") :
          k > 1 /\ calls[k - 1].stage = "review"
    /\ pc \in {"final", "done"} =>
          NumCalls("retrieve") + NumCalls("supplemental")
              = Len(plan[1].search_queries) + Cardinality(RejectsWithQuery)

\* two planned searches, two REJECTs with a query, then an ACCEPT that also
\* carries a query: four retrieval calls
C28_Witness ==
    /\ pc = "done"
    /\ Len(attempts) = 3
    /\ Accepted(3)
    /\ Truthy(attempts[3].verdict.feedback_for_retriever)
    /\ Cardinality(RejectsWithQuery) = 2
    /\ NumCalls("retrieve") = 2
    /\ NumCalls("supplemental") = 2

\* C29: when the Review Stage fails on attempt i, the orchestrator treats it
\* as a REJECT: the next call is one supplemental retrieval for the fallback
\* directive text, its result is appended under the supplemental heading,
\* and the Reason call of attempt i+1, when there is one, is given the query
\* with the error critique appended.
C29_ReviewFailureHandledAsReject ==
    \A i \in DOMAIN attempts :
        IsReviewFallback(attempts[i].verdict) =>
            LET v == attempts[i].verdict
                k == CHOOSE p \in PositionsOf("review") :
                         Cardinality({j \in PositionsOf("review") : j <= p}) = i
                n == Cardinality({j \in 1..(k + 1) :
                         calls[j].stage \in {"retrieve", "supplemental"}})
                directive == <<"System error, please retry aggregation.">>
            IN  /\ v.decision = "REJECT"
                /\ i = Len(attempts) => final_answer = None
                /\ Len(calls) = k => pc = "supplemental"
                /\ Len(calls) > k =>
                      /\ calls[k + 1].stage = "supplemental"
                      /\ calls[k + 1].arg = directive
                      /\ lookups[n].kind = "supplemental"
                      /\ lookups[n].query = directive
                      /\ StartsWith(aggregated_context,
                                    LabeledSegments(ui, SubSeq(lookups, 1, n)))
                /\ Len(calls) > k + 1 =>
                      /\ calls[k + 2].stage = "reason"
                      /\ calls[k + 2].arg = EffectiveQuery(ui, user_query, v.critique)
                      /\ calls[k + 2].arg # user_query
                      /\ calls[k + 2].ev = LabeledSegments(ui, SubSeq(lookups, 1, n))

\* the Review output of attempt 0 could not be decoded and attempt 1 ran
\* after the supplemental search for the directive text
C29_Witness ==
    /\ Len(attempts) >= 2
    /\ IsReviewFallback(attempts[1].verdict)
    /\ attempts[1].verdict.critique = Some(<<"System error during review: ", "JSONDecodeError">>)
    /\ NumCalls("reason") >= 2
    /\ lookups[Len(plan[1].search_queries) + 1].query
          = <<"System error, please retry aggregation.">>

\* C26: a session is one sequential pipeline: the Plan call is the first
\* call, every initial retrieval call comes before the first Reason call,
\* each Review call directly follows the Reason call whose draft it reviews,
\* and a supplemental retrieval directly follows the Review call whose
\* verdict asked for it; a call begins only when the one before has returned.
C26_SequentialPipeline ==
    /\ \A k \in DOMAIN calls :
          CASE calls[k].stage = "plan" -> k = 1
            [] calls[k].stage = "retrieve" ->
                  k > 1 /\ \A j \in 1..(k - 1) : calls[j].stage \in {"plan", "retrieve"}
            [] calls[k].stage = "reason" ->
                  /\ k > 1
                  /\ calls[k - 1].stage # "reason"
                  /\ Cardinality({j \in 1..(k - 1) : calls[j].stage = "retrieve"})
                        = Len(plan[1].search_queries)
            [] calls[k].stage = "review" ->
                  /\ k > 1
                  /\ calls[k - 1].stage = "reason"
                  /\ LET i == Cardinality({j \in 1..k : calls[j].stage = "review"}) IN
                     calls[k].draft = Some(attempts[i].draft)
            [] OTHER ->
                  /\ k > 1
                  /\ calls[k - 1].stage = "review"
                  /\ LET i == Cardinality({j \in 1..k : calls[j].stage = "review"}) IN
                     Some(calls[k].arg) = attempts[i].verdict.feedback_for_retriever
    /\ (pc = "reviewing") = (Len(calls) > 0 /\ calls[Len(calls)].stage = "reason")
    /\ NumCalls("reason") - NumCalls("review") \in {0, 1}

\* a full session: the plan, two searches, then three rounds of Reason,
\* Review and supplemental search
C26_Witness ==
    /\ pc = "done"
    /\ Len(calls) = 12
    /\ [k \in 1..12 |-> calls[k].stage]
          = <<"plan", "retrieve", "retrieve",
              "reason", "review", "supplemental",
              "reason", "review", "supplemental",
              "reason", "review", "supplemental">>

\* C21 (as claimed): retriever_tool returns a non-empty text for every
\* outcome (store not initialised, store construction or search error, zero
\* hits, hits), never an absent value or an exception, and returns the
\* no-evidence marker exactly when the search yields neither text items nor
\* image items.
C21_ToolAlwaysReturnsText ==
    rt_calls > 0 =>
        /\ rt_pc = "returned"
        /\ rt_out # None
        /\ rt_out[1].type = "str"
        /\ Len(rt_out[1].text) > 0
        /\ (rt_out[1].text = <<"No relevant information found.">>)
              = (/\ rt_results # None
                 /\ \A i \in DOMAIN rt_results[1] :
                       ItemType(rt_results[1][i]) \notin {"text", "image"})

\* C27 (as claimed): retriever_tool returns a RetrieverOutput record with
\* text_evidence and image_evidence lists holding the hits of type text and
\* of type image.
C27_ToolReturnsRetrieverOutput ==
    (rt_pc = "returned" /\ rt_results # None) =>
        /\ rt_out[1].type = "RetrieverOutput"
        /\ \A i \in DOMAIN rt_results[1] :
              /\ ItemType(rt_results[1][i]) = "text" =>
                    \E j \in DOMAIN rt_out[1].text_evidence :
                        rt_out[1].text_evidence[j].id = rt_results[1][i].id
              /\ ItemType(rt_results[1][i]) = "image" =>
                    \E j \in DOMAIN rt_out[1].image_evidence :
                        rt_out[1].image_evidence[j].figure_id = rt_results[1][i].id

\* C23: when the configuration file is missing the process stops (command
\* line: exit status 1; web app: FileNotFoundError at load) before any agent
\* is constructed and before the pipeline or the ingestion is entered.
C23_MissingConfigStopsProcess ==
    (cm_entry # "off" /\ ~cm_config) =>
        /\ cm_agents = <<>>
        /\ cm_parsed = None /\ cm_store = None /\ cm_writes = 0
        /\ cm_pc \in {"load", "exited", "failed"}
        /\ cm_pc = "exited" => (cm_entry = "cli" /\ cm_exit = Some(1))
        /\ cm_pc = "failed" => (cm_entry = "gui" /\ cm_error = Some("FileNotFoundError"))

\* the chat command stopped with status 1, no agent constructed
C23_Witness ==
    /\ cm_entry = "cli" /\ cm_mode = "chat" /\ ~cm_config
    /\ cm_pc = "exited"
    /\ cm_exit = Some(1)
    /\ cm_agents = <<>>

\* C24: ingest_document never raises: a failed parse is logged and no
\* vector-store write is attempted; a failed vector-store step is logged;
\* the write happens only after a successful parse; the command returns
\* normally in all three cases.
C24_IngestNeverRaises ==
    (cm_mode = "ingest" /\ cm_config) =>
        /\ cm_pc # "failed" /\ cm_error = None
        /\ (cm_writes > 0 \/ cm_store # None) => cm_parsed # None
        /\ cm_writes <= 1
        /\ cm_pc \in {"returned", "exited"} =>
              /\ cm_parsed = None =>
                    (cm_log = <<"PDF Parsing Failed">> /\ cm_store = None)
              /\ cm_parsed # None =>
                    /\ cm_store # None
                    /\ cm_log = <<"Parsed PDF successfully",
                                  IF cm_store = Some("ok") THEN "Ingestion Complete"
                                  ELSE "Vector DB Storage Failed">>
        /\ cm_pc = "exited" => cm_exit = Some(0)

\* an ingestion whose parse succeeded and whose add_documents raised, ended
\* with status 0
C24_Witness ==
    /\ cm_mode = "ingest"
    /\ cm_pc = "exited"
    /\ cm_exit = Some(0)
    /\ cm_parsed # None
    /\ cm_store = Some("add raise")
    /\ cm_log = <<"Parsed PDF successfully", "Vector DB Storage Failed">>

\* C25 (as claimed): analyze_image makes at most 3 calls of the vision
\* model, retrying after API errors and after undecodable output, and always
\* returns a VLOutput without raising (the decoded result, or an error or
\* fallback record once the third attempt has failed); with the image file
\* missing or the client not initialised it returns an error record with no
\* model call.
C25_AnalyzeImageAlwaysReturns ==
    /\ Len(vl_calls) <= 3
    /\ vl_pc # "raised"
    /\ vl_pc = "returned" =>
          /\ vl_out # None
          /\ vl_out[1].description \in Text /\ vl_out[1].insights \in Text
          /\ (vl_image = "missing" \/ vl_cfg = "none") =>
                (Len(vl_calls) = 0 /\ vl_out[1].description[1] \in
                    {"Error: Image file not found.", "Error: API Client not initialized"})
          /\ Len(vl_calls) > 0 =>
                \/ /\ vl_calls[Len(vl_calls)].ok
                   /\ VLIsJson(VLClean(vl_calls[Len(vl_calls)].content))
                   /\ vl_out[1].description \in {<<"d">>, <<"No description provided.">>}
                \/ /\ Len(vl_calls) = 3
                   /\ vl_out[1].insights # <<"i">>

\* C31: when an attempt is REJECTed with an absent or empty supplemental
\* query, no retrieval call is made and the evidence block is left as it
\* was: the Reason call of the next attempt directly follows the Review call
\* and receives the evidence text the rejected attempt received.
C31_RejectWithoutQueryKeepsEvidence ==
    \A i \in DOMAIN attempts :
        (Rejected(i) /\ ~Truthy(attempts[i].verdict.feedback_for_retriever)) =>
            LET k == CHOOSE p \in PositionsOf("review") :
                         Cardinality({j \in PositionsOf("review") : j <= p}) = i
            IN  /\ i = Len(attempts) =>
                      /\ final_answer = None
                      /\ pc \in {"reasoning", "reviewing", "final", "done"}
                      /\ aggregated_context = calls[k - 1].ev
                      /\ pc = "reasoning" => current_attempt = i
                /\ Len(calls) > k =>
                      /\ calls[k + 1].stage = "reason"
                      /\ calls[k + 1].ev = calls[k - 1].ev

\* attempt 0 rejected without a query over non-empty evidence, and the second
\* Reason call made with the same evidence
C31_Witness ==
    /\ NumCalls("reason") >= 2
    /\ Rejected(1)
    /\ attempts[1].verdict.feedback_for_retriever = None
    /\ Len(CallsOf("reason")[1].ev) > 0
    /\ CallsOf("reason")[2].ev = CallsOf("reason")[1].ev
    /\ NumCalls("supplemental") = 0

\* ------------------------------------------------------------------ sessions
\* The pipeline as a function on the local state of one invocation: the
\* fields are the local variables of run_chat_pipeline / chat_pipeline, and
\* each operator is the step of the same name above applied to that state.
SessionInit(u, q) ==
    [ui |-> u, user_query |-> q, pc |-> "start", plan |-> None, qidx |-> 1,
     aggregated_context |-> <<>>, current_attempt |-> 0, feedback |-> Some(<<>>),
     final_answer |-> None, draft_output |-> None, review |-> None,
     calls |-> <<>>, attempts |-> <<>>, lookups |-> <<>>, shown |-> None]

SessionStart(s) ==
    [s EXCEPT !.pc = IF s.ui = "gui" /\ Len(s.user_query) = 0
                     THEN "noinput" ELSE "planning"]

SessionPlan(s, g) ==
    LET p == PlannerPlan(s.user_query, g) IN
    [s EXCEPT !.plan = Some(p),
              !.pc = IF Len(PlannedQueries(p)) = 0 THEN LoopPc(0) ELSE "retrieving",
              !.qidx = 1,
              !.aggregated_context = <<>>,
              !.calls = Append(s.calls, Call("plan", s.user_query, <<>>, None))]

SessionRetrieve(s, o) ==
    LET query == PlannedQueries(s.plan[1])[s.qidx]
        result == RetrieverRun(query, o)
        logged == [s EXCEPT !.calls = Append(s.calls,
                                             Call("retrieve", query, <<>>, None)),
                            !.lookups = Append(s.lookups,
                                               [kind |-> "initial", query |-> query,
                                                outcome |-> o, result |-> result])]
    IN  IF result = Uncaught
        THEN [logged EXCEPT !.pc = "crashed"]
        ELSE [logged EXCEPT
                 !.aggregated_context = AppendInitial(s.aggregated_context, query, result),
                 !.qidx = s.qidx + 1,
                 !.pc = RetrievalLoopPc(s.qidx, PlannedQueries(s.plan[1]))]

SessionReason(s, g) ==
    LET effective_query == EffectiveQuery(s.ui, s.user_query, s.feedback) IN
    [s EXCEPT !.draft_output =
                  Some(ReasonerRun(effective_query, s.aggregated_context, g)),
              !.calls = Append(s.calls, Call("reason", effective_query,
                                             s.aggregated_context, None)),
              !.pc = "reviewing"]

SessionReview(s, g) ==
    LET query == ReviewQuery(s.ui, s.user_query, s.feedback)
        v == ReviewerReview(query, s.draft_output[1], g)
        b == ReviewBranch(v)
    IN  [s EXCEPT
            !.review = Some(v),
            !.attempts = Append(s.attempts, [index |-> s.current_attempt,
                                             draft |-> s.draft_output[1],
                                             verdict |-> v]),
            !.final_answer = IF b = "accept" THEN s.draft_output ELSE s.final_answer,
            !.feedback = IF b = "accept" THEN s.feedback ELSE v.critique,
            !.current_attempt = IF b = "retry" THEN s.current_attempt + 1
                                ELSE s.current_attempt,
            !.pc = CASE b = "accept" -> "final"
                     [] b = "supplemental" -> "supplemental"
                     [] OTHER -> LoopPc(s.current_attempt + 1),
            !.calls = Append(s.calls, Call("review", query, <<>>, s.draft_output))]

SessionSupplemental(s, o) ==
    LET query == s.review[1].feedback_for_retriever[1]
        new_evidence == RetrieverRun(query, o)
        logged == [s EXCEPT !.calls = Append(s.calls,
                                             Call("supplemental", query, <<>>, None)),
                            !.lookups = Append(s.lookups,
                                               [kind |-> "supplemental",
                                                query |-> query, outcome |-> o,
                                                result |-> new_evidence])]
    IN  IF new_evidence = Uncaught
        THEN [logged EXCEPT !.pc = "crashed"]
        ELSE [logged EXCEPT
                 !.aggregated_context =
                     AppendSupplemental(s.ui, s.aggregated_context, new_evidence),
                 !.current_attempt = s.current_attempt + 1,
                 !.pc = LoopPc(s.current_attempt + 1)]

SessionFinalOutput(s) ==
    [s EXCEPT !.shown = Some([accepted |-> s.final_answer # None,
                              draft |-> ShownDraft(s.final_answer, s.draft_output)]),
              !.pc = "done"]

\* ------------------------------------------------------------------ CLI beside GUI
\* run_chat_pipeline and chat_pipeline started on the same query and given,
\* call by call, the same stage outputs. A step is taken while the two are at
\* the same position; a state where they are not is the end of the run.
PairInit ==
    /\ \E q \in UserQueries :
          sessions = <<SessionInit("cli", q), SessionInit("gui", q)>>
    /\ OrchIdle /\ StageIdle /\ ToolIdle /\ CommandIdle /\ VLIdle
    /\ GetIdle /\ PollIdle /\ AddIdle /\ EmbedIdle

PairFrame == UNCHANGED <<basevars, gvars, pvars, dvars, evars>>

PairOn0(p, F(_)) ==
    /\ sessions # <<>>
    /\ sessions[1].pc = p /\ sessions[2].pc = p
    /\ sessions' = <<F(sessions[1]), F(sessions[2])>>
    /\ PairFrame

PairOn1(p, X, F(_, _)) ==
    /\ sessions # <<>>
    /\ sessions[1].pc = p /\ sessions[2].pc = p
    /\ \E x \in X : sessions' = <<F(sessions[1], x), F(sessions[2], x)>>
    /\ PairFrame

PairStart == PairOn0("start", SessionStart)
PairPlan == PairOn1("planning", PlanGens, SessionPlan)
PairRetrieve == PairOn1("retrieving", RetrieverOutcomes, SessionRetrieve)
PairReason == PairOn1("reasoning", ReasonGens, SessionReason)
PairReview == PairOn1("reviewing", ReviewGens, SessionReview)
PairSupplemental == PairOn1("supplemental", RetrieverOutcomes, SessionSupplemental)
PairFinalOutput == PairOn0("final", SessionFinalOutput)

PairNext ==
    \/ PairStart \/ PairPlan \/ PairRetrieve \/ PairReason \/ PairReview
    \/ PairSupplemental \/ PairFinalOutput

PairSpec == PairInit /\ [][PairNext]_vars

\* what the claim compares of a call: the stage, the search string of a
\* retrieval, the query and draft given to the other stages; the text given to
\* the Reason Stage is left out, its feedback wrapper differs by design
VisibleCall(c) ==
    [stage |-> c.stage, arg |-> IF c.stage = "reason" THEN <<>> ELSE c.arg,
     draft |-> c.draft]
VisibleCalls(s) == [k \in DOMAIN s.calls |-> VisibleCall(s.calls[k])]

SessionIds == {1, 2}

ConcQuery(i) == IF i = 1 THEN <<"Q1">> ELSE <<"Q2">>
ConcPlanGens(i) ==
    IF i = 1 THEN {GenOk(<<"{plan: a, a}">>)}
    ELSE {GenOk(<<"{plan: search_queries []}">>), GenOk(<<"{plan: a, a}">>)}
ConcEvidence(i) == IF i = 1 THEN {GenOk(<<"E1">>)} ELSE {GenOk(<<"E2">>)}
ConcReasonGens(i) == {GenOk(<<"{draft: A1, cites}">>)}
ConcReviewGens(i) ==
    IF i = 1
    THEN {GenOk(<<"{ACCEPT 0.0, search s2}">>), GenOk(<<"{REJECT 0.2, search s1}">>)}
    ELSE {GenOk(<<"{REJECT 1.5, critique null}">>), GenOk(<<"not json">>)}

\* mutant: evidence, critique and counter kept in variables of the module
SessionsUpdateShared(ss, i, new) ==
    [j \in DOMAIN ss |->
        IF j = i THEN new
        ELSE [ss[j] EXCEPT !.aggregated_context = new.aggregated_context,
                           !.feedback = new.feedback,
                           !.current_attempt = new.current_attempt]]

\* a step of session i assigns the local variables of that invocation only
SessionsUpdate(ss, i, new) == [ss EXCEPT ![i] = new]

ConcInit ==
    /\ sessions = [i \in SessionIds |-> SessionInit("gui", ConcQuery(i))]
    /\ OrchIdle /\ StageIdle /\ ToolIdle /\ CommandIdle /\ VLIdle
    /\ GetIdle /\ PollIdle /\ AddIdle /\ EmbedIdle

ConcOn0(p, F(_)) ==
    /\ sessions # <<>>
    /\ \E i \in SessionIds :
          /\ sessions[i].pc = p
          /\ sessions' = SessionsUpdate(sessions, i, F(sessions[i]))
    /\ PairFrame

ConcOn1(p, X(_), F(_, _)) ==
    /\ sessions # <<>>
    /\ \E i \in SessionIds :
          /\ sessions[i].pc = p
          /\ \E x \in X(i) : sessions' = SessionsUpdate(sessions, i, F(sessions[i], x))
    /\ PairFrame

ConcStart == ConcOn0("start", SessionStart)
ConcPlan == ConcOn1("planning", ConcPlanGens, SessionPlan)
ConcRetrieve == ConcOn1("retrieving", ConcEvidence, SessionRetrieve)
ConcReason == ConcOn1("reasoning", ConcReasonGens, SessionReason)
ConcReview == ConcOn1("reviewing", ConcReviewGens, SessionReview)
ConcSupplemental == ConcOn1("supplemental", ConcEvidence, SessionSupplemental)
ConcFinalOutput == ConcOn0("final", SessionFinalOutput)

ConcNext ==
    \/ ConcStart \/ ConcPlan \/ ConcRetrieve \/ ConcReason \/ ConcReview
    \/ ConcSupplemental \/ ConcFinalOutput

ConcSpec == ConcInit /\ [][ConcNext]_vars

Tokens(text) == {text[k] : k \in DOMAIN text}
SessionEvidence(s) == UNION {Tokens(s.lookups[k].result) : k \in DOMAIN s.lookups}
SessionCritiques(s) ==
    UNION {Tokens(s.attempts[k].verdict.critique[1]) :
              k \in {n \in DOMAIN s.attempts : Truthy(s.attempts[n].verdict.critique)}}
ReasonCalls(s) == SelectSeq(s.calls, LAMBDA c : c.stage = "reason")

Threads == {1, 2}
MaxGetCalls == 2
ConstructorOutcomes == {"ok", "raise"}

GetInit ==
    /\ gs_pc = [t \in Threads |-> "idle"]
    /\ gs_cfg \in BOOLEAN
    /\ gs_store = 0
    /\ gs_made = 0
    /\ gs_new = [t \in Threads |-> 0]
    /\ gs_ret = <<>>
    /\ OrchIdle /\ StageIdle /\ ToolIdle /\ CommandIdle /\ VLIdle
    /\ SessionsIdle /\ PollIdle /\ AddIdle /\ EmbedIdle

GetFrame == UNCHANGED <<basevars, nvars, pvars, dvars, evars>>

\* retriever_tool: store = get_vector_store()
GetEnter(t) ==
    /\ gs_pc # <<>> /\ gs_pc[t] = "idle"
    /\ Cardinality({k \in DOMAIN gs_ret : gs_ret[k].thread = t}) < MaxGetCalls
    /\ gs_pc' = [gs_pc EXCEPT ![t] = "test"]
    /\ UNCHANGED <<gs_cfg, gs_store, gs_made, gs_new, gs_ret>>
    /\ GetFrame

\* if _vector_store is None and cfg:
GetTest(t) ==
    /\ gs_pc # <<>> /\ gs_pc[t] = "test"
    /\ gs_pc' = [gs_pc EXCEPT ![t] = IF gs_store = 0 /\ gs_cfg THEN "construct"
                                     ELSE "return"]
    /\ UNCHANGED <<gs_cfg, gs_store, gs_made, gs_new, gs_ret>>
    /\ GetFrame

\* VectorStoreManager(cfg): a new instance, or the exception of the constructor
GetConstruct(t) ==
    /\ gs_pc # <<>> /\ gs_pc[t] = "construct"
    /\ \E o \in ConstructorOutcomes :
          IF o = "ok"
          THEN /\ gs_made' = gs_made + 1
               /\ gs_new' = [gs_new EXCEPT ![t] = gs_made + 1]
               /\ gs_pc' = [gs_pc EXCEPT ![t] = "assign"]
               /\ UNCHANGED gs_ret
          ELSE /\ gs_ret' = Append(gs_ret, [thread |-> t, value |-> 0,
                                            raised |-> TRUE])
               /\ gs_pc' = [gs_pc EXCEPT ![t] = "idle"]
               /\ UNCHANGED <<gs_made, gs_new>>
    /\ UNCHANGED <<gs_cfg, gs_store>>
    /\ GetFrame

\* _vector_store = <the instance constructed>
GetAssign(t) ==
    /\ gs_pc # <<>> /\ gs_pc[t] = "assign"
    /\ gs_store' = gs_new[t]
    /\ gs_pc' = [gs_pc EXCEPT ![t] = "return"]
    /\ UNCHANGED <<gs_cfg, gs_made, gs_new, gs_ret>>
    /\ GetFrame

\* return _vector_store
GetReturn(t) ==
    /\ gs_pc # <<>> /\ gs_pc[t] = "return"
    /\ gs_ret' = Append(gs_ret, [thread |-> t, value |-> gs_store, raised |-> FALSE])
    /\ gs_pc' = [gs_pc EXCEPT ![t] = "idle"]
    /\ UNCHANGED <<gs_cfg, gs_store, gs_made, gs_new>>
    /\ GetFrame

GetNext ==
    \E t \in Threads :
        GetEnter(t) \/ GetTest(t) \/ GetConstruct(t) \/ GetAssign(t) \/ GetReturn(t)

GetSpec == GetInit /\ [][GetNext]_vars

\* C34: get_vector_store constructs at most one VectorStoreManager, and once
\* a call has returned an instance every later call returns that instance,
\* also when the calls of several threads overlap.
C34_AtMostOneStore ==
    /\ gs_made <= 1
    /\ \A k \in DOMAIN gs_ret : \A n \in DOMAIN gs_ret :
          (k < n /\ gs_ret[k].value # 0 /\ ~gs_ret[n].raised) =>
              gs_ret[n].value = gs_ret[k].value

\* ------------------------------------------------------------------ MinerU polling
\* PDFParser._poll_batch_task. Time is counted in seconds since start_time;
\* a message is a sequence of tokens, and the test for the marker inside
\* str(e) is the test whether the message holds the marker token.
FATAL == "[server-side parsing failed]"
Contains(text, tok) == \E k \in DOMAIN text : text[k] = tok

Timeouts == {4, 9}
RequestSeconds == {0, 1}
InProgress == {"running", "converting", "waiting-file", "pending"}
TaskStates == {"done", "failed", "running", "pending", "paused"}
ServerMessages == {<<"busy">>, <<FATAL>>}

Response(kind, state, msg) == [kind |-> kind, state |-> state, msg |-> msg]

\* what one requests.get can bring back
Responses ==
    {Response(k, "", <<>>) :
        k \in {"connection error", "status 500", "undecodable", "no data",
               "not listed"}}
    \cup {Response("code", "", m) : m \in ServerMessages}
    \cup {Response("task", s, <<"bad pdf">>) : s \in TaskStates}

Continue(seconds) == [end |-> "poll", sleep |-> seconds, error |-> <<>>]

\* except Exception as e: re-raised when the message holds the marker
PollHandler(e) ==
    IF Contains(e, FATAL) THEN [end |-> "raise", sleep |-> 0, error |-> e]
    ELSE Continue(5)

\* the body of the loop after the timeout test, for one response
PollBody(r) ==
    CASE r.kind = "connection error" -> PollHandler(<<"ConnectionError">>)
      [] r.kind = "status 500" -> Continue(5)
      [] r.kind = "undecodable" -> Continue(3)
      [] r.kind = "code" -> PollHandler(<<"query failed: ">> \o r.msg)
      [] r.kind = "no data" -> PollHandler(<<"KeyError">>)
      [] r.kind = "not listed" -> Continue(3)
      [] r.kind = "task" ->
            IF r.state = "done" THEN [end |-> "return", sleep |-> 0, error |-> <<>>]
            ELSE IF r.state = "failed" THEN PollHandler(<<FATAL, ": ">> \o r.msg)
            ELSE IF r.state \in InProgress THEN Continue(5)
            ELSE Continue(5)

PollInit ==
    /\ pl_pc = "check"
    /\ pl_timeout \in Timeouts
    /\ pl_elapsed = 0
    /\ pl_resp = None
    /\ pl_error = None
    /\ pl_out = None
    /\ pl_polls = 0
    /\ OrchIdle /\ StageIdle /\ ToolIdle /\ CommandIdle /\ VLIdle
    /\ SessionsIdle /\ GetIdle /\ AddIdle /\ EmbedIdle

PollFrame == UNCHANGED <<basevars, nvars, gvars, dvars, evars>>

\* while True: if time.time() - start_time > timeout: raise TimeoutError
PollCheck ==
    /\ pl_pc = "check"
    /\ IF pl_elapsed > pl_timeout
       THEN /\ pl_pc' = "raised"
            /\ pl_error' = Some(<<"TimeoutError">>)
       ELSE /\ pl_pc' = "request"
            /\ UNCHANGED pl_error
    /\ UNCHANGED <<pl_timeout, pl_elapsed, pl_resp, pl_out, pl_polls>>
    /\ PollFrame

\* one request, the handling of its response and the sleep before the next
PollRequest ==
    /\ pl_pc = "request"
    /\ \E r \in Responses : \E d \in RequestSeconds : \E b \in {PollBody(r)} :
          /\ pl_resp' = Some(r)
          /\ pl_elapsed' = pl_elapsed + d + b.sleep
          /\ pl_pc' = CASE b.end = "return" -> "returned"
                        [] b.end = "raise" -> "raised"
                        [] OTHER -> "check"
          /\ pl_out' = IF b.end = "return" THEN Some(r) ELSE pl_out
          /\ pl_error' = IF b.end = "raise" THEN Some(b.error) ELSE pl_error
    /\ pl_polls' = pl_polls + 1
    /\ UNCHANGED pl_timeout
    /\ PollFrame

PollNext == PollCheck \/ PollRequest

PollSpec == PollInit /\ [][PollNext]_vars

\* C35: polling returns only a task whose state is done, leaves with an
\* exception only when the task state is failed or, as TimeoutError, when the
\* timeout has elapsed, and polls again after every other response.
C35_PollEndsByDoneFailedOrTimeout ==
    /\ pl_pc = "returned" =>
          /\ pl_out # None /\ pl_out[1].kind = "task" /\ pl_out[1].state = "done"
    /\ pl_pc = "raised" =>
          \/ pl_error = Some(<<"TimeoutError">>) /\ pl_elapsed > pl_timeout
          \/ pl_resp # None /\ pl_resp[1].kind = "task" /\ pl_resp[1].state = "failed"
    /\ (pl_pc = "check" /\ pl_resp # None) =>
          ~(pl_resp[1].kind = "task" /\ pl_resp[1].state \in {"done", "failed"})

\* ------------------------------------------------------------------ add_documents
\* VectorStoreManager.add_documents on a parse of up to MaxChunks text chunks
\* and MaxFigures figures. A chunk is its position and the length of its
\* content, a figure its position and whether its image file exists; an
\* evidence item is named by the chunk or figure it was built from.
ChunkLengths == {0, 4, 5}
ChunkLists == UNION {[1..n -> ChunkLengths] : n \in 0..MaxChunks}
FigureLists == UNION {[1..n -> BOOLEAN] : n \in 0..MaxFigures}
ItemOf(kind, k) == [kind |-> kind, k |-> k]

\* if len(chunk.content) < 5: continue
ChunkKept(length) == ~(length < 5)

\* mutant: the number of embeddings not compared
EmbeddingsMatchAny(n, items) == TRUE

\* if len(embeddings) != len(evidence_items): raise ValueError
EmbeddingsMatch(n, items) == ~(n # Len(items))

\* what generate_embeddings can bring back for the items: a list, complete or
\* one short, or an exception
EmbeddingOutcomes(items) == {Len(items), Len(items) - 1, -1}

AddInit ==
    /\ ad_pc = "chunks"
    /\ ad_chunks \in ChunkLists
    /\ ad_figures \in FigureLists
    /\ ad_fidx = 1
    /\ ad_items = <<>>
    /\ ad_embeddings = None
    /\ ad_embed_calls = 0
    /\ ad_vl_calls = <<>>
    /\ ad_writes = <<>>
    /\ OrchIdle /\ StageIdle /\ ToolIdle /\ CommandIdle /\ VLIdle
    /\ SessionsIdle /\ GetIdle /\ PollIdle /\ EmbedIdle

AddFrame == UNCHANGED <<basevars, nvars, gvars, pvars, evars>>

\* for chunk in text_chunks
AddChunks ==
    /\ ad_pc = "chunks"
    /\ ad_items' = [k \in 1..Cardinality({j \in DOMAIN ad_chunks : ChunkKept(ad_chunks[j])})
                      |-> ItemOf("text",
                                 CHOOSE j \in DOMAIN ad_chunks :
                                    /\ ChunkKept(ad_chunks[j])
                                    /\ Cardinality({i \in 1..j : ChunkKept(ad_chunks[i])}) = k)]
    /\ ad_pc' = "figures"
    /\ UNCHANGED <<ad_chunks, ad_figures, ad_fidx, ad_embeddings, ad_embed_calls,
                   ad_vl_calls, ad_writes>>
    /\ AddFrame

\* one iteration of: for i, fig in enumerate(figure_data)
AddFigure ==
    /\ ad_pc = "figures"
    /\ ad_fidx <= Len(ad_figures)
    /\ IF ~ad_figures[ad_fidx]
       THEN /\ ad_fidx' = ad_fidx + 1
            /\ UNCHANGED <<ad_pc, ad_items, ad_vl_calls>>
       ELSE /\ ad_vl_calls' = Append(ad_vl_calls, ad_fidx)
            /\ \E o \in {"ok", "raise"} :
                  IF o = "ok"
                  THEN /\ ad_items' = Append(ad_items, ItemOf("image", ad_fidx))
                       /\ ad_fidx' = ad_fidx + 1
                       /\ UNCHANGED ad_pc
                  ELSE /\ ad_pc' = "raised"
                       /\ UNCHANGED <<ad_items, ad_fidx>>
    /\ UNCHANGED <<ad_chunks, ad_figures, ad_embeddings, ad_embed_calls, ad_writes>>
    /\ AddFrame

\* if not evidence_items: return
AddCollected ==
    /\ ad_pc = "figures"
    /\ ad_fidx > Len(ad_figures)
    /\ ad_pc' = IF Len(ad_items) = 0 THEN "returned" ELSE "embed"
    /\ UNCHANGED <<ad_chunks, ad_figures, ad_fidx, ad_items, ad_embeddings,
                   ad_embed_calls, ad_vl_calls, ad_writes>>
    /\ AddFrame

\* embeddings = generate_embeddings(texts_to_embed, self.config) and the
\* comparison of the two lengths
AddEmbed ==
    /\ ad_pc = "embed"
    /\ ad_embed_calls' = ad_embed_calls + 1
    /\ \E n \in EmbeddingOutcomes(ad_items) :
          IF n < 0
          THEN /\ ad_pc' = "raised"
               /\ UNCHANGED ad_embeddings
          ELSE /\ ad_embeddings' = Some(n)
               /\ ad_pc' = IF EmbeddingsMatch(n, ad_items) THEN "write" ELSE "raised"
    /\ UNCHANGED <<ad_chunks, ad_figures, ad_fidx, ad_items, ad_vl_calls, ad_writes>>
    /\ AddFrame

\* self.collection.upsert(...)
AddWrite ==
    /\ ad_pc = "write"
    /\ \E o \in {"ok", "raise"} :
          /\ ad_writes' = Append(ad_writes, [ids |-> ad_items,
                                             embeddings |-> ad_embeddings[1],
                                             outcome |-> o])
          /\ ad_pc' = IF o = "ok" THEN "returned" ELSE "raised"
    /\ UNCHANGED <<ad_chunks, ad_figures, ad_fidx, ad_items, ad_embeddings,
                   ad_embed_calls, ad_vl_calls>>
    /\ AddFrame

AddNext == AddChunks \/ AddFigure \/ AddCollected \/ AddEmbed \/ AddWrite

AddSpec == AddInit /\ [][AddNext]_vars

\* C36: add_documents makes at most one write, and only with as many
\* embeddings as evidence items; no chunk shorter than 5 characters and no
\* figure whose image file is missing is among the items written or sent to
\* the VL model; with no item left there is no embedding call and no write.
C36_WriteOnceOnlyValidItems ==
    /\ Len(ad_writes) <= 1
    /\ ad_embed_calls <= 1
    /\ \A w \in DOMAIN ad_writes :
          /\ ad_embed_calls = 1
          /\ ad_writes[w].embeddings = Len(ad_writes[w].ids)
          /\ ad_writes[w].ids = ad_items
          /\ \A k \in DOMAIN ad_writes[w].ids :
                LET it == ad_writes[w].ids[k]
                IN  IF it.kind = "text" THEN ad_chunks[it.k] >= 5
                    ELSE ad_figures[it.k]
    /\ \A k \in DOMAIN ad_vl_calls : ad_figures[ad_vl_calls[k]]
    /\ (ad_pc \in {"returned", "raised"} /\ Len(ad_items) = 0) =>
          /\ ad_embed_calls = 0
          /\ ad_writes = <<>>

C36_Witness ==
    /\ ad_pc = "returned"
    /\ Len(ad_writes) = 1 /\ ad_writes[1].outcome = "ok"
    /\ \E k \in DOMAIN ad_chunks : ad_chunks[k] = 4
    /\ \E k \in DOMAIN ad_figures : ~ad_figures[k]
    /\ \E k \in DOMAIN ad_items : ad_items[k].kind = "text"
    /\ \E k \in DOMAIN ad_items : ad_items[k].kind = "image"

\* ------------------------------------------------------------------ generate_embeddings
\* generate_embeddings with a ModelScope base_url: one embeddings.create call
\* at a time, each text retried until a call brings data. An embedding is
\* named by the text it was computed from.
MaxTexts == 2
EmbedMaxRetries == 5
EmbedTexts == {<<WS>>, <<"a">>, <<"b", WS>>}
EmbedInputs == UNION {[1..n -> EmbedTexts] : n \in 0..MaxTexts}
CreateOutcomes == {"data", "empty data", "429", "error"}

\* clean_text = text.strip() or "empty_node"
CleanText(text) == IF Len(Strip(text)) = 0 THEN <<"empty_node">> ELSE Strip(text)
EmbeddingOf(text) == [of |-> text]

\* mutant: one more call allowed
EmbedLoopCondInclusive(s, r) == ~s /\ r <= EmbedMaxRetries

\* while not success and retry_count < max_retries
EmbedLoopCond(s, r) == ~s /\ r < EmbedMaxRetries

EmbedInit ==
    /\ ge_pc = "next"
    /\ ge_texts \in EmbedInputs
    /\ ge_i = 1
    /\ success = FALSE
    /\ retry_count = 0
    /\ all_embeddings = <<>>
    /\ ge_calls = <<>>
    /\ ge_out = None
    /\ OrchIdle /\ StageIdle /\ ToolIdle /\ CommandIdle /\ VLIdle
    /\ SessionsIdle /\ GetIdle /\ PollIdle /\ AddIdle

EmbedFrame == UNCHANGED <<basevars, nvars, gvars, pvars, dvars>>

\* for i, text in enumerate(texts): ... ; return all_embeddings
EmbedNextText ==
    /\ ge_pc = "next"
    /\ IF ge_i > Len(ge_texts)
       THEN /\ ge_pc' = "returned"
            /\ ge_out' = Some(all_embeddings)
            /\ UNCHANGED <<success, retry_count>>
       ELSE /\ ge_pc' = "loop"
            /\ success' = FALSE
            /\ retry_count' = 0
            /\ UNCHANGED ge_out
    /\ UNCHANGED <<ge_texts, ge_i, all_embeddings, ge_calls>>
    /\ EmbedFrame

\* one iteration of the while loop: the call and its handler
EmbedAttempt ==
    /\ ge_pc = "loop"
    /\ EmbedLoopCond(success, retry_count)
    /\ \E o \in CreateOutcomes :
          /\ ge_calls' = Append(ge_calls, [i |-> ge_i,
                                           input |-> CleanText(ge_texts[ge_i]),
                                           ok |-> o = "data"])
          /\ IF o = "data"
             THEN /\ all_embeddings' =
                        Append(all_embeddings, EmbeddingOf(CleanText(ge_texts[ge_i])))
                  /\ success' = TRUE
                  /\ UNCHANGED retry_count
             ELSE /\ retry_count' = retry_count + 1
                  /\ UNCHANGED <<all_embeddings, success>>
    /\ UNCHANGED <<ge_pc, ge_texts, ge_i, ge_out>>
    /\ EmbedFrame

\* if not success: raise Exception(...)
EmbedAfterLoop ==
    /\ ge_pc = "loop"
    /\ ~EmbedLoopCond(success, retry_count)
    /\ IF ~success
       THEN /\ ge_pc' = "raised"
            /\ UNCHANGED ge_i
       ELSE /\ ge_pc' = "next"
            /\ ge_i' = ge_i + 1
    /\ UNCHANGED <<ge_texts, success, retry_count, all_embeddings, ge_calls, ge_out>>
    /\ EmbedFrame

EmbedNext == EmbedNextText \/ EmbedAttempt \/ EmbedAfterLoop

EmbedSpec == EmbedInit /\ [][EmbedNext]_vars

CallsFor(k) == {n \in DOMAIN ge_calls : ge_calls[n].i = k}

\* C37: in ModelScope mode no text gets more than 5 embedding calls; the
\* function raises, returning nothing, exactly when 5 calls for one text have
\* failed, and otherwise returns one embedding per input text, in input order.
C37_EmbeddingsRetryBound ==
    /\ \A k \in DOMAIN ge_texts : Cardinality(CallsFor(k)) <= 5
    /\ \A n \in DOMAIN ge_calls : ge_calls[n].i \in DOMAIN ge_texts
    /\ ge_pc = "raised" =>
          /\ ge_out = None
          /\ Cardinality(CallsFor(ge_i)) = 5
          /\ \A n \in CallsFor(ge_i) : ~ge_calls[n].ok
    /\ (\E k \in DOMAIN ge_texts :
           Cardinality({n \in CallsFor(k) : ~ge_calls[n].ok}) = 5) =>
          /\ ge_out = None
          /\ ge_pc \in {"loop", "raised"}
    /\ ge_pc = "returned" =>
          /\ ge_out # None
          /\ Len(ge_out[1]) = Len(ge_texts)
          /\ \A k \in DOMAIN ge_texts : ge_out[1][k] = EmbeddingOf(CleanText(ge_texts[k]))

C37_Witness ==
    /\ ge_pc = "returned"
    /\ Len(ge_texts) = 2 /\ ge_texts[1] # ge_texts[2]
    /\ Cardinality(CallsFor(1)) = 5
    /\ Cardinality(CallsFor(2)) = 1
    /\ Len(ge_out[1]) = 2

====
